---- MODULE Spec2Model ----
(***************************************************************************)
(* Verification model of the cipher scripts of AlternateRealityGameToolkit *)
(* (Chaocipher, Bifid, ADFGVX, Beaufort, Atbash, Alphabet, Autokey,        *)
(* Affine, Aryabhata, Alberti and Bacon).  Every script is a Python        *)
(* program; a run of a script is modelled from the point where its         *)
(* command-line arguments have been parsed (ADFGVXcipher.py declares its   *)
(* positionals with required=True, which argparse refuses with a TypeError *)
(* at lines 19-26; its body, lines 35-102, is modelled as written).  Python strings are modelled   *)
(* as sequences of one-character strings, Python indices stay 0-based.     *)
(***************************************************************************)
EXTENDS Integers, Sequences, FiniteSets, TLC

VARIABLES
    script,             \* which script is running
    pc,                 \* position of the script
    exit_status,        \* -1 while running, else the process exit status
    error_message,      \* error text written by the script ("" when none)
    events,             \* the order in which the script's stages ran
    \* ChaocipherCipher.py
    args_left,          \* args.left_alphabet
    args_right,         \* args.right_alphabet
    secret_message,     \* the message argument (all encoders)
    left_alphabet,      \* module-level left_alphabet (validated)
    right_alphabet,     \* module-level right_alphabet (validated)
    enc_left,           \* chaocipher_encrypt's local left_alphabet
    enc_right,          \* chaocipher_encrypt's local right_alphabet
    ciphertext,         \* chaocipher_encrypt's local ciphertext / ADFGVX ciphertext
    pos,                \* position of the `for char in plaintext` loop
    encrypted_message,  \* the encoder's printed result / the decoder's argument
    enc_trace,          \* per processed character: index used and disks after it
    dec_left,           \* mirrored decode: left sequence
    dec_right,          \* mirrored decode: right sequence
    dec_pos,            \* mirrored decode: loop position
    decrypted_message,  \* the decoder's result
    dec_trace,          \* mirrored decode: index used and disks after each step
    \* BifidCipher.py / BifidDecipher.py
    args_message,       \* args.secret_message as typed
    args_encrypted,     \* args.encrypted_message as typed
    args_square,        \* whether --square was given
    csv_cells,          \* the cells of the CSV file, row after row
    square,             \* the 25-character square
    char_to_coords,     \* dict: character -> (row, col)
    coords_to_char,     \* dict: (row, col) -> character
    rows,               \* list of row indices
    cols,               \* list of column indices
    combined,           \* the combined coordinate list
    \* ADFGVXcipher.py / ADFGVXdecipher.py
    args_key,           \* args.transposition_key as typed
    args_size,          \* args.polybius_size
    transposition_key,  \* the normalised transposition key
    polybius_matrix,    \* rows of cells, a cell is a string
    ciphered_stage1_matrix, \* one list of labels per key character
    index_dict,         \* dict: key character -> position in the key
    transposition_matrix,   \* the buckets in key order, as strings
    file_found,         \* whether polybius_square_file can be opened
    csv_rows,           \* the rows of the CSV file, each a list of cells
    columns,            \* args.encrypted_message.split()
    original_columns,   \* the columns at their original positions
    intermediate,       \* the label stream read back by the decoder
    \* BeaufortCipher.py, AlphabetCipher.py / AlphabetDecipher.py,
    \* AutokeyCipher.py / AutokeyDecipher.py
    args_secret_key,    \* args.secret_key as typed
    secret_key,         \* the normalised key
    key_ind,            \* the Alphabet scripts' key index
    full_key,           \* AutokeyCipher.py: secret_key + secret_message
    current_key,        \* AutokeyDecipher.py: the key built while decrypting
    \* AtbashCipher.py
    atbash_message,     \* the module-level message
    is_hebrew,          \* the result of detect_hebrew
    \* AffineCipher.py / AffineDecipher.py
    args_a,             \* args.a: <<>> for None, else <<value>>
    args_b,             \* args.b: <<>> for None, else <<value>>
    affine_a,           \* a
    affine_b,           \* b
    a_inv,              \* the modular inverse of a
    \* the loops of these scripts and the log of their finished runs
    loop_i,             \* the number of characters the loop has processed
    runs,               \* per finished run: the message it read and its output
    \* AryabhataCipher.py / AryabhataDecipher.py
    args_number,        \* args.number
    remaining,          \* number_to_aryabhata's remaining
    syllables,          \* the encoder's list of syllables / the decoder's parsed pairs
    vowel_index,        \* how many vowel powers the encoder's loop has visited
    aryabhata,          \* the encoder's result / args.aryabhata_text
    number,             \* the decoder's result
    \* AlbertiCipher.py (both copies) / AlbertiDecipher.py
    stationary_disk,    \* the stationary disk
    movable_disk,       \* the movable disk, k at position 0 where the script rotates it
    frequency_rotate,   \* args.frequency_rotate
    method_two,         \* args.method_two
    k_offset,           \* k_offset
    iters_until_rotate, \* iters_until_rotate
    message_index,      \* AlbertiDecipher.py: message_index
    disk_reads,         \* every index used so far to read one of the two disks
    \* BaconCipher.py / BaconDecipher.py
    args_mode,          \* args.mode
    args_cover_text,    \* args.cover_text
    args_variant,       \* args.variant
    bacon_code,         \* the string of A and B
    encoded,            \* the encoder's output
    decoded_message     \* the decoder's result

controlVars == <<script, pc, exit_status, error_message, events>>
chaoVars == <<args_left, args_right, left_alphabet, right_alphabet, enc_left,
              enc_right, pos, enc_trace, dec_left, dec_right, dec_pos, dec_trace>>
textVars == <<secret_message, ciphertext, encrypted_message, decrypted_message>>
argVars == <<args_message, args_encrypted>>
bifidVars == <<args_square, csv_cells, square, char_to_coords,
               coords_to_char, rows, cols, combined>>
adfgvxVars == <<args_key, args_size, transposition_key, polybius_matrix,
                ciphered_stage1_matrix, index_dict, transposition_matrix,
                file_found, csv_rows, columns, original_columns, intermediate>>
keyedVars == <<args_secret_key, secret_key, key_ind, full_key, current_key>>
atbashVars == <<atbash_message, is_hebrew>>
affineVars == <<args_a, args_b, affine_a, affine_b, a_inv>>
loopVars == <<loop_i, runs>>
simpleVars == <<keyedVars, atbashVars, affineVars, loopVars>>
aryaVars == <<args_number, remaining, syllables, vowel_index, aryabhata, number>>
albertiVars == <<stationary_disk, movable_disk, frequency_rotate, method_two,
                 k_offset, iters_until_rotate, message_index, disk_reads>>
baconVars == <<args_mode, args_cover_text, args_variant, bacon_code, encoded,
               decoded_message>>
lateVars == <<aryaVars, albertiVars, baconVars>>
vars == <<controlVars, chaoVars, textVars, argVars, bifidVars, adfgvxVars, simpleVars,
          lateVars>>
notChao == <<argVars, bifidVars, adfgvxVars, simpleVars, lateVars>>
notBifid == <<chaoVars, adfgvxVars, simpleVars, lateVars>>
notAdfgvx == <<chaoVars, bifidVars, simpleVars, lateVars>>
notKeyed == <<chaoVars, bifidVars, adfgvxVars, atbashVars, affineVars, lateVars>>
notAtbash == <<chaoVars, bifidVars, adfgvxVars, keyedVars, affineVars, lateVars>>
notAffine == <<chaoVars, bifidVars, adfgvxVars, keyedVars, atbashVars, lateVars>>
notArya == <<chaoVars, bifidVars, adfgvxVars, simpleVars, albertiVars, baconVars>>
notAlberti == <<chaoVars, bifidVars, adfgvxVars, keyedVars, atbashVars, affineVars,
                aryaVars, baconVars>>
notBacon == <<chaoVars, bifidVars, adfgvxVars, simpleVars, aryaVars, albertiVars>>

-----------------------------------------------------------------------------
(* Bounds of the model *)
MaxMsgLen == 3
MaxDiskShift == 0
MaxSquareShift == 1
MaxKeyLen == 3
MaxTextLen == 3
MaxSecretKeyLen == 2

-----------------------------------------------------------------------------
(* Python string helpers *)

UpperLetters == <<"A","B","C","D","E","F","G","H","I","J","K","L","M",
                  "N","O","P","Q","R","S","T","U","V","W","X","Y","Z">>
LowerLetters == <<"a","b","c","d","e","f","g","h","i","j","k","l","m",
                  "n","o","p","q","r","s","t","u","v","w","x","y","z">>

Min(a, b) == IF a < b THEN a ELSE b
Max(a, b) == IF a > b THEN a ELSE b

Range(s) == { s[i] : i \in 1..Len(s) }
Contains(s, x) == \E i \in 1..Len(s) : s[i] = x

\* s.index(x) / list.index(x): the first 0-based position (the caller checks presence)
Index0(s, x) == CHOOSE i \in 0..(Len(s) - 1) :
                    /\ s[i + 1] = x
                    /\ \A j \in 0..(i - 1) : s[j + 1] # x

\* s[a:b] with Python's clamping of the bounds
Slice(s, a, b) == LET lo == Min(a, Len(s))
                      hi == Min(b, Len(s))
                  IN  IF lo >= hi THEN <<>> ELSE SubSeq(s, lo + 1, hi)

\* s[a:]
SliceFrom(s, a) == Slice(s, a, Len(s))

\* str.isalpha(), str.upper() and str.lower() know letters beyond a-z: "E'"
\* stands for U+00C9 (E with acute accent) and "e'" for U+00E9, its lowercase
AccentedUpper == <<"E'">>
AccentedLower == <<"e'">>
AllUpper == UpperLetters \o AccentedUpper
AllLower == LowerLetters \o AccentedLower
LowerSet == Range(AllLower)
UpperSet == Range(AllUpper)
IsLower(c) == c \in LowerSet
IsUpper(c) == c \in UpperSet
\* the 27 code points U+05D0 .. U+05EA, alef to tav, final forms included
HebrewLetters == <<"alef", "bet", "gimel", "dalet", "he", "vav", "zayin", "het",
                   "tet", "yod", "final kaf", "kaf", "lamed", "final mem", "mem",
                   "final nun", "nun", "samekh", "ayin", "final pe", "pe",
                   "final tsadi", "tsadi", "qof", "resh", "shin", "tav">>
HebrewSet == Range(HebrewLetters)
IsAlpha(c) == IsLower(c) \/ IsUpper(c) \/ c \in HebrewSet
ToUpper(c) == IF IsLower(c) THEN AllUpper[Index0(AllLower, c) + 1] ELSE c
ToLower(c) == IF IsUpper(c) THEN AllLower[Index0(AllUpper, c) + 1] ELSE c
StrUpper(s) == [i \in 1..Len(s) |-> ToUpper(s[i])]
StrLower(s) == [i \in 1..Len(s) |-> ToLower(s[i])]

\* all sequences over S of length 0..n
SeqsUpTo(S, n) == UNION { [1..k -> S] : k \in 0..n }

-----------------------------------------------------------------------------
(* ChaocipherCipher.py *)

\* a plausible slip: only the length is checked
validate_alphabet_len_only(alphabet) ==
    IF Len(StrUpper(alphabet)) # 26 THEN "must contain exactly 26 characters" ELSE ""

\* validate_alphabet: "" when the alphabet passes, else the ValueError raised
validate_alphabet(alphabet) ==
    LET up == StrUpper(alphabet)
    IN  IF Len(up) # 26 THEN "must contain exactly 26 characters"
        ELSE IF Cardinality(Range(up)) # 26 THEN "must contain 26 unique characters"
        ELSE IF ~ (\A i \in 1..Len(up) : IsAlpha(up[i])) THEN "must contain only letters"
        ELSE ""

\* a plausible slip in the splice: the tail is taken from 13 instead of 14
permute_left_dup(alphabet, index) ==
    LET rot == SliceFrom(alphabet, index) \o Slice(alphabet, 0, index)
        extracted == rot[2]
    IN  <<rot[1]>> \o Slice(rot, 2, 14) \o <<extracted>> \o SliceFrom(rot, 13)

permute_left(alphabet, index) ==
    LET rot == SliceFrom(alphabet, index) \o Slice(alphabet, 0, index)
        extracted == rot[2]
    IN  <<rot[1]>> \o Slice(rot, 2, 14) \o <<extracted>> \o SliceFrom(rot, 14)

\* a plausible slip: step 2, the rotation by one more position, is left out
permute_right_one_rotation(alphabet, index) ==
    LET rot1 == SliceFrom(alphabet, index) \o Slice(alphabet, 0, index)
        extracted == rot1[3]
    IN  Slice(rot1, 0, 2) \o Slice(rot1, 3, 14) \o <<extracted>> \o SliceFrom(rot1, 14)

permute_right(alphabet, index) ==
    LET rot == SliceFrom(alphabet, index) \o Slice(alphabet, 0, index)
        rot1 == SliceFrom(rot, 1) \o <<rot[1]>>
        extracted == rot1[3]
    IN  Slice(rot1, 0, 2) \o Slice(rot1, 3, 14) \o <<extracted>> \o SliceFrom(rot1, 14)

\* a plausible copy-and-paste slip: the right alphabet is permuted like the left one
encrypt_char_same_permute(char, left, right) ==
    IF IsAlpha(ToUpper(char))
    THEN IF ~ Contains(right, ToUpper(char))
         THEN [raised |-> TRUE, out |-> <<>>, index |-> -1, left |-> left, right |-> right]
         ELSE LET index == Index0(right, ToUpper(char))
                  cipher_char == left[index + 1]
              IN  [raised |-> FALSE,
                   out |-> <<IF IsLower(char) THEN ToLower(cipher_char) ELSE cipher_char>>,
                   index |-> index,
                   left |-> permute_left(left, index),
                   right |-> permute_left(right, index)]
    ELSE [raised |-> FALSE, out |-> <<char>>, index |-> -1, left |-> left, right |-> right]

\* a plausible slip: a letter missing from the right alphabet is passed through
encrypt_char_pass_absent(char, left, right) ==
    IF IsAlpha(ToUpper(char)) /\ Contains(right, ToUpper(char))
    THEN LET index == Index0(right, ToUpper(char))
             cipher_char == left[index + 1]
         IN  [raised |-> FALSE,
              out |-> <<IF IsLower(char) THEN ToLower(cipher_char) ELSE cipher_char>>,
              index |-> index,
              left |-> permute_left(left, index),
              right |-> permute_right(right, index)]
    ELSE [raised |-> FALSE, out |-> <<char>>, index |-> -1, left |-> left, right |-> right]

\* one iteration of the loop of chaocipher_encrypt
encrypt_char(char, left, right) ==
    IF IsAlpha(ToUpper(char))
    THEN IF ~ Contains(right, ToUpper(char))
         THEN [raised |-> TRUE, out |-> <<>>, index |-> -1, left |-> left, right |-> right]
         ELSE LET index == Index0(right, ToUpper(char))
                  cipher_char == left[index + 1]
              IN  [raised |-> FALSE,
                   out |-> <<IF IsLower(char) THEN ToLower(cipher_char) ELSE cipher_char>>,
                   index |-> index,
                   left |-> permute_left(left, index),
                   right |-> permute_right(right, index)]
    ELSE [raised |-> FALSE, out |-> <<char>>, index |-> -1, left |-> left, right |-> right]

\* one step of the mirrored decode: the index is located in the left sequence,
\* the symbol is emitted from the right sequence, both are permuted alike
decode_char(char, left, right) ==
    IF IsAlpha(ToUpper(char))
    THEN IF ~ Contains(left, ToUpper(char))
         THEN [raised |-> TRUE, out |-> <<>>, index |-> -1, left |-> left, right |-> right]
         ELSE LET index == Index0(left, ToUpper(char))
                  plain_char == right[index + 1]
              IN  [raised |-> FALSE,
                   out |-> <<IF IsLower(char) THEN ToLower(plain_char) ELSE plain_char>>,
                   index |-> index,
                   left |-> permute_left(left, index),
                   right |-> permute_right(right, index)]
    ELSE [raised |-> FALSE, out |-> <<char>>, index |-> -1, left |-> left, right |-> right]

(* Inputs of the Chaocipher runs *)
DiskMultipliers == {1, 25}
AffineDisk(a, b) == [i \in 1..26 |-> UpperLetters[((a * (i - 1) + b) % 26) + 1]]
ByrneLeft == <<"H","X","U","C","Z","V","A","M","D","S","L","K","P",
               "E","F","J","R","I","G","T","W","O","B","N","Y","Q">>
ByrneRight == <<"P","T","L","N","B","Q","D","E","O","Y","S","F","A",
                "V","Z","K","G","J","R","I","H","W","X","U","M","C">>
ValidDisks == { AffineDisk(a, b) : a \in DiskMultipliers, b \in 0..MaxDiskShift }
                  \cup {ByrneLeft, ByrneRight}
InvalidDisks == { Slice(ByrneLeft, 0, 25),
                  <<"H">> \o SliceFrom(ByrneLeft, 1) \o <<"H">>,
                  <<"H">> \o Slice(ByrneLeft, 0, 25),
                  <<"1">> \o SliceFrom(ByrneLeft, 1) }
DiskInputs == ValidDisks \cup { StrLower(ByrneRight) } \cup InvalidDisks
\* 26 distinct letters without A: validate_alphabet accepts it
AccentedDisk == [i \in 1..26 |-> IF ByrneRight[i] = "A" THEN "E'" ELSE ByrneRight[i]]
ChaoChars == {"A", "n", " "}
\* one letter in both cases with a non-letter between its occurrences
MixedCaseMessage == <<"n", " ", "N">>
ChaoMessages == SeqsUpTo(ChaoChars, MaxMsgLen) \cup { MixedCaseMessage }


NoRun == /\ exit_status = -1
         /\ error_message = ""
         /\ events = <<>>

ChaoIdle == /\ args_left = <<>> /\ args_right = <<>>
            /\ left_alphabet = <<>> /\ right_alphabet = <<>>
            /\ enc_left = <<>> /\ enc_right = <<>>
            /\ pos = 0 /\ enc_trace = <<>>
            /\ dec_left = <<>> /\ dec_right = <<>>
            /\ dec_pos = 0 /\ dec_trace = <<>>

ArgsIdle == args_message = <<>> /\ args_encrypted = <<>>

BifidIdle == /\ args_square = FALSE /\ csv_cells = <<>>
             /\ square = <<>> /\ char_to_coords = <<>> /\ coords_to_char = <<>>
             /\ rows = <<>> /\ cols = <<>> /\ combined = <<>>

AdfgvxIdle == /\ args_key = <<>> /\ args_size = "" /\ transposition_key = <<>>
              /\ polybius_matrix = <<>> /\ ciphered_stage1_matrix = <<>>
              /\ index_dict = <<>> /\ transposition_matrix = <<>>
              /\ file_found = FALSE /\ csv_rows = <<>> /\ columns = <<>>
              /\ original_columns = <<>> /\ intermediate = <<>>

KeyedIdle == /\ args_secret_key = <<>> /\ secret_key = <<>> /\ key_ind = 0
             /\ full_key = <<>> /\ current_key = <<>>

AtbashIdle == atbash_message = <<>> /\ is_hebrew = FALSE

AffineIdle == /\ args_a = <<>> /\ args_b = <<>>
              /\ affine_a = 0 /\ affine_b = 0 /\ a_inv = 0

LoopIdle == loop_i = 0 /\ runs = <<>>

SimpleIdle == KeyedIdle /\ AtbashIdle /\ AffineIdle /\ LoopIdle

AryaIdle == /\ args_number = 0 /\ remaining = 0 /\ syllables = <<>>
            /\ vowel_index = 0 /\ aryabhata = <<>> /\ number = 0

AlbertiIdle == /\ stationary_disk = <<>> /\ movable_disk = <<>>
               /\ frequency_rotate = 0 /\ method_two = FALSE
               /\ k_offset = 0 /\ iters_until_rotate = 0
               /\ message_index = 0 /\ disk_reads = <<>>

BaconIdle == /\ args_mode = "" /\ args_cover_text = <<>> /\ args_variant = 0
             /\ bacon_code = <<>> /\ encoded = <<>> /\ decoded_message = <<>>

LateIdle == AryaIdle /\ AlbertiIdle /\ BaconIdle

InitChao ==
    /\ script = "ChaocipherCipher"
    /\ pc = "validate_left"
    /\ NoRun
    /\ args_left \in DiskInputs
    /\ args_right \in DiskInputs \cup { AccentedDisk }
    /\ secret_message \in ChaoMessages
    /\ left_alphabet = <<>> /\ right_alphabet = <<>>
    /\ enc_left = <<>> /\ enc_right = <<>>
    /\ ciphertext = <<>> /\ pos = 0 /\ encrypted_message = <<>>
    /\ enc_trace = <<>>
    /\ dec_left = <<>> /\ dec_right = <<>> /\ dec_pos = 0
    /\ decrypted_message = <<>> /\ dec_trace = <<>>
    /\ ArgsIdle
    /\ BifidIdle
    /\ AdfgvxIdle
    /\ SimpleIdle
    /\ LateIdle

\* an uncaught exception: traceback on stderr, exit status 1
Raise(message) ==
    /\ pc' = "raised"
    /\ exit_status' = 1
    /\ error_message' = message

\* left_alphabet = validate_alphabet(args.left_alphabet, "Left")
ChaoValidateLeft ==
    /\ UNCHANGED notChao
    /\ script = "ChaocipherCipher" /\ pc = "validate_left"
    /\ events' = Append(events, "validate_left")
    /\ IF validate_alphabet(args_left) # ""
       THEN /\ Raise(validate_alphabet(args_left))
            /\ UNCHANGED left_alphabet
       ELSE /\ left_alphabet' = StrUpper(args_left)
            /\ pc' = "validate_right"
            /\ UNCHANGED <<exit_status, error_message>>
    /\ UNCHANGED <<script, args_left, args_right, right_alphabet, enc_left, enc_right,
                   pos, enc_trace, dec_left, dec_right, dec_pos, dec_trace, textVars>>

\* right_alphabet = validate_alphabet(args.right_alphabet, "Right"), then the call
\* of chaocipher_encrypt binds its parameters
ChaoValidateRight ==
    /\ UNCHANGED notChao
    /\ script = "ChaocipherCipher" /\ pc = "validate_right"
    /\ events' = Append(events, "validate_right")
    /\ IF validate_alphabet(args_right) # ""
       THEN /\ Raise(validate_alphabet(args_right))
            /\ UNCHANGED <<right_alphabet, enc_left, enc_right>>
       ELSE /\ right_alphabet' = StrUpper(args_right)
            /\ enc_left' = left_alphabet
            /\ enc_right' = StrUpper(args_right)
            /\ pc' = "encrypt"
            /\ UNCHANGED <<exit_status, error_message>>
    /\ UNCHANGED <<script, args_left, args_right, left_alphabet,
                   pos, enc_trace, dec_left, dec_right, dec_pos, dec_trace, textVars>>

\* one iteration of `for char in plaintext`
ChaoEncryptChar ==
    /\ UNCHANGED notChao
    /\ script = "ChaocipherCipher" /\ pc = "encrypt"
    /\ pos < Len(secret_message)
    /\ LET r == encrypt_char(secret_message[pos + 1], enc_left, enc_right)
       IN  /\ events' = Append(events, "lookup")
           /\ IF r.raised
              THEN /\ Raise("substring not found")
                   /\ UNCHANGED <<enc_left, enc_right, ciphertext, pos, enc_trace>>
              ELSE /\ ciphertext' = ciphertext \o r.out
                   /\ enc_left' = r.left
                   /\ enc_right' = r.right
                   /\ pos' = pos + 1
                   /\ enc_trace' = Append(enc_trace,
                          [index |-> r.index, left |-> r.left, right |-> r.right])
                   /\ UNCHANGED <<pc, exit_status, error_message>>
    /\ UNCHANGED <<script, args_left, args_right, left_alphabet, right_alphabet,
                   dec_left, dec_right, dec_pos, dec_trace,
                   secret_message, encrypted_message, decrypted_message>>

\* return ciphertext; the prints; the script ends
ChaoEncryptReturn ==
    /\ UNCHANGED notChao
    /\ script = "ChaocipherCipher" /\ pc = "encrypt"
    /\ pos = Len(secret_message)
    /\ encrypted_message' = ciphertext
    /\ pc' = "done"
    /\ exit_status' = 0
    /\ events' = Append(events, "output")
    /\ dec_left' = left_alphabet
    /\ dec_right' = right_alphabet
    /\ UNCHANGED <<script, error_message, args_left, args_right, left_alphabet,
                   right_alphabet, enc_left, enc_right, pos, enc_trace, dec_pos,
                   dec_trace, secret_message, ciphertext, decrypted_message>>

\* the mirrored decode of the printed message, from the same initial disks
ChaoDecodeChar ==
    /\ UNCHANGED notChao
    /\ script = "ChaocipherCipher" /\ pc = "done"
    /\ dec_pos < Len(encrypted_message)
    /\ LET r == decode_char(encrypted_message[dec_pos + 1], dec_left, dec_right)
       IN  /\ ~ r.raised
           /\ decrypted_message' = decrypted_message \o r.out
           /\ dec_left' = r.left
           /\ dec_right' = r.right
           /\ dec_pos' = dec_pos + 1
           /\ dec_trace' = Append(dec_trace,
                  [index |-> r.index, left |-> r.left, right |-> r.right])
    /\ UNCHANGED <<controlVars, args_left, args_right, left_alphabet, right_alphabet,
                   enc_left, enc_right, pos, enc_trace,
                   secret_message, ciphertext, encrypted_message>>

NextChao == \/ ChaoValidateLeft
            \/ ChaoValidateRight
            \/ ChaoEncryptChar
            \/ ChaoEncryptReturn
            \/ ChaoDecodeChar

SpecChao == InitChao /\ [][NextChao]_vars

-----------------------------------------------------------------------------
(* Claims about ChaocipherCipher.py *)

\* stage e of the running script has been executed
Happened(e) == \E i \in 1..Len(events) : events[i] = e

PermOf(s, initial) == /\ Len(s) = 26
                      /\ Cardinality(Range(s)) = 26
                      /\ Range(s) = Range(initial)

\* C1: after every character processed by chaocipher_encrypt, left_alphabet and
\* right_alphabet are each a permutation of their own initial 26 symbols
\* (length 26, nothing duplicated, nothing dropped).
C1_DisksStayPermutations ==
    /\ \A i \in 1..Len(enc_trace) :
          /\ PermOf(enc_trace[i].left, left_alphabet)
          /\ PermOf(enc_trace[i].right, right_alphabet)
    /\ pos > 0 => /\ PermOf(enc_left, left_alphabet)
                  /\ PermOf(enc_right, right_alphabet)

C1_Witness ==
    /\ Len(enc_trace) >= 2
    /\ enc_trace[1].index >= 0
    /\ enc_trace[2].index >= 0
    /\ enc_left # left_alphabet
    /\ enc_right # right_alphabet

DecodeFinished == /\ script = "ChaocipherCipher"
                  /\ pc = "done"
                  /\ dec_pos = Len(encrypted_message)

\* C2: the mirrored decode of chaocipher_encrypt(M, L, R), started from the same
\* (L, R), returns M.
C2_ChaoRoundTrip == DecodeFinished => decrypted_message = secret_message

C2_Witness ==
    /\ DecodeFinished
    /\ Len(secret_message) >= 2
    /\ \A i \in 1..Len(secret_message) : IsAlpha(secret_message[i])
    /\ encrypted_message # secret_message
    /\ decrypted_message = secret_message

\* C3: the encrypt run and the mirrored decode run use the same index at every
\* step and hold the same disk pair after every step, so the final disk pairs
\* are identical.
C3_TrajectoriesMatch ==
    /\ Len(dec_trace) <= Len(enc_trace)
    /\ \A i \in 1..Len(dec_trace) : dec_trace[i] = enc_trace[i]
    /\ DecodeFinished => /\ dec_left = enc_left
                         /\ dec_right = enc_right

C3_Witness ==
    /\ DecodeFinished
    /\ Len(dec_trace) >= 2
    /\ dec_trace[1].index >= 0
    /\ dec_trace[2].index >= 0
    /\ dec_trace[1].index # dec_trace[2].index
    /\ dec_left = enc_left
    /\ dec_left # left_alphabet

\* the uppercased string has exactly 26 characters, all distinct, all letters
Valid26(alphabet) ==
    LET symbols == Range(StrUpper(alphabet))
    IN  /\ Len(alphabet) = 26
        /\ Cardinality(symbols) = Len(alphabet)
        /\ \A c \in symbols : IsAlpha(c)

ValueErrorRaised == pc = "raised" /\ exit_status = 1 /\ error_message # ""

\* C12: validate_alphabet raises an error for the left and for the right
\* alphabet unless the uppercased string has exactly 26 characters, all distinct
\* and all letters; both alphabets are validated before chaocipher_encrypt
\* processes any character, so no ciphertext is produced from an invalid
\* alphabet.
C12_AlphabetsValidated ==
    script = "ChaocipherCipher" =>
        LET left_valid == Valid26(args_left)
            right_valid == Valid26(args_right)
        IN  /\ (Happened("validate_left") /\ ~ left_valid) =>
                   /\ ValueErrorRaised
                   /\ ~ Happened("validate_right")
            /\ (Happened("validate_right") /\ ~ right_valid) => ValueErrorRaised
            /\ \A i \in 1..Len(events) :
                   events[i] = "lookup" =>
                       /\ \E j \in 1..(i - 1) : events[j] = "validate_left"
                       /\ \E j \in 1..(i - 1) : events[j] = "validate_right"
            /\ (~ left_valid \/ ~ right_valid) =>
                   /\ ~ Happened("lookup")
                   /\ ~ Happened("output")
                   /\ enc_trace = <<>>
                   /\ ciphertext = <<>> /\ encrypted_message = <<>>

C12_Witness ==
    /\ script = "ChaocipherCipher"
    /\ ValueErrorRaised
    /\ Valid26(args_left)
    /\ Len(args_right) = 26
    /\ ~ Valid26(args_right)
    /\ events = <<"validate_left", "validate_right">>
    /\ Len(secret_message) >= 2
    /\ ciphertext = <<>>

\* the disks before step i of chaocipher_encrypt
LeftBefore(i) == IF i = 1 THEN left_alphabet ELSE enc_trace[i - 1].left
RightBefore(i) == IF i = 1 THEN right_alphabet ELSE enc_trace[i - 1].right

\* C13: in chaocipher_encrypt a non-alphabetic input character is appended to
\* the output unchanged and leaves both left_alphabet and right_alphabet exactly
\* as they were; an alphabetic character that is not present in the right
\* alphabet raises an error instead of being passed through.
C13_PassThroughFrame ==
    script = "ChaocipherCipher" =>
        /\ \A i \in 1..Len(enc_trace) :
               IF IsAlpha(ToUpper(secret_message[i]))
               THEN /\ Contains(RightBefore(i), ToUpper(secret_message[i]))
                    /\ enc_trace[i].index >= 0
               ELSE /\ ciphertext[i] = secret_message[i]
                    /\ enc_trace[i].left = LeftBefore(i)
                    /\ enc_trace[i].right = RightBefore(i)
        /\ Len(ciphertext) = Len(enc_trace)
        /\ (pc = "raised" /\ Happened("lookup")) =>
               /\ IsAlpha(ToUpper(secret_message[pos + 1]))
               /\ ~ Contains(enc_right, ToUpper(secret_message[pos + 1]))
               /\ Len(ciphertext) = pos
               /\ ~ Happened("output")

C13_Witness ==
    /\ script = "ChaocipherCipher"
    /\ pc = "raised" /\ Happened("lookup")
    /\ Len(enc_trace) = 2
    /\ secret_message[1] = " "
    /\ ciphertext[1] = " "
    /\ enc_trace[1].left = left_alphabet
    /\ enc_trace[2].index >= 0
    /\ secret_message[3] = "A"

\* the character at 0-based position k of s rotated left by n
RotatedAt(s, n, k) == s[((k + n) % Len(s)) + 1]

\* C24: for an alphabetic input character c, one step of chaocipher_encrypt
\* emits left[i], i the index of uppercase(c) in the right sequence, lowercased
\* exactly when c is lowercase; the new left sequence is the old one rotated
\* left by i with position 1 moved to position 13, the new right sequence the
\* old one rotated left by i + 1 with position 2 moved to position 13;
\* positions 14-25 of both rotated sequences are unchanged.
C24_StepSemantics ==
    script = "ChaocipherCipher" =>
        \A n \in 1..Len(enc_trace) :
            IsAlpha(ToUpper(secret_message[n])) =>
                LET c == secret_message[n]
                    old_left == LeftBefore(n)
                    old_right == RightBefore(n)
                    i == Index0(old_right, ToUpper(c))
                    new_left == enc_trace[n].left
                    new_right == enc_trace[n].right
                IN  /\ enc_trace[n].index = i
                    /\ ciphertext[n] = IF IsLower(c) THEN ToLower(old_left[i + 1])
                                       ELSE old_left[i + 1]
                    /\ Len(new_left) = 26 /\ Len(new_right) = 26
                    /\ new_left[0 + 1] = RotatedAt(old_left, i, 0)
                    /\ \A k \in 1..12 : new_left[k + 1] = RotatedAt(old_left, i, k + 1)
                    /\ new_left[13 + 1] = RotatedAt(old_left, i, 1)
                    /\ \A k \in 14..25 : new_left[k + 1] = RotatedAt(old_left, i, k)
                    /\ \A k \in 0..1 : new_right[k + 1] = RotatedAt(old_right, i + 1, k)
                    /\ \A k \in 2..12 : new_right[k + 1] = RotatedAt(old_right, i + 1, k + 1)
                    /\ new_right[13 + 1] = RotatedAt(old_right, i + 1, 2)
                    /\ \A k \in 14..25 : new_right[k + 1] = RotatedAt(old_right, i + 1, k)

C24_Witness ==
    /\ script = "ChaocipherCipher"
    /\ Len(enc_trace) = 2
    /\ secret_message[1] = "n" /\ secret_message[2] = "A"
    /\ enc_trace[1].index > 0
    /\ enc_trace[2].index > 0
    /\ IsLower(ciphertext[1]) /\ IsUpper(ciphertext[2])
    /\ enc_trace[2].left # enc_trace[1].left

\* the last 0-based position p < n at which the message holds a letter, else -1
LastLetterBefore(n) ==
    LET letters == { p \in 0..(n - 1) : IsAlpha(ToUpper(secret_message[p + 1])) }
    IN  IF letters = {} THEN -1
        ELSE CHOOSE p \in letters : \A q \in letters : q <= p

\* C28: after chaocipher_encrypt processes an alphabetic character, position 0
\* of left_alphabet holds the ciphertext letter just emitted and position 25 of
\* right_alphabet the plaintext letter just consumed, both in upper case, and
\* this stays true while following non-alphabetic characters are processed.
C28_ZenithAndNadir ==
    script = "ChaocipherCipher" =>
        /\ \A n \in 1..Len(enc_trace) :
               LET p == LastLetterBefore(n)
               IN  p >= 0 =>
                       /\ enc_trace[n].left[0 + 1] = ToUpper(ciphertext[p + 1])
                       /\ enc_trace[n].right[25 + 1] = ToUpper(secret_message[p + 1])
        /\ (pos > 0 /\ LastLetterBefore(pos) >= 0) =>
               /\ enc_left[0 + 1] = ToUpper(ciphertext[LastLetterBefore(pos) + 1])
               /\ enc_right[25 + 1] = ToUpper(secret_message[LastLetterBefore(pos) + 1])

C28_Witness ==
    /\ script = "ChaocipherCipher"
    /\ pos = 3
    /\ secret_message = <<"A", "n", " ">>
    /\ enc_trace[2].index > 0
    /\ enc_left[0 + 1] = ToUpper(ciphertext[2])
    /\ enc_left[0 + 1] # ciphertext[2]
    /\ enc_right[25 + 1] = "N"
    /\ enc_left = enc_trace[2].left

\* C29: chaocipher_encrypt never maps two consecutive alphabetic occurrences of
\* the same plaintext letter (ignoring case and any non-alphabetic characters
\* between them) to the same ciphertext letter.
C29_NoRepeatedPair ==
    script = "ChaocipherCipher" =>
        \A n \in 2..Len(enc_trace) :
            LET p == LastLetterBefore(n - 1)
            IN  (/\ IsAlpha(ToUpper(secret_message[n]))
                 /\ p >= 0
                 /\ ToUpper(secret_message[p + 1]) = ToUpper(secret_message[n]))
                => ToUpper(ciphertext[p + 1]) # ToUpper(ciphertext[n])

C29_Witness ==
    /\ script = "ChaocipherCipher"
    /\ pc = "done"
    /\ secret_message = <<"n", " ", "N">>
    /\ Len(ciphertext) = 3
    /\ ToUpper(ciphertext[1]) # ciphertext[3]
    /\ ciphertext[2] = " "


-----------------------------------------------------------------------------
(* BifidCipher.py and BifidDecipher.py *)

Alphabet25 == <<"a","b","c","d","e","f","g","h","i","k","l","m","n",
                "o","p","q","r","s","t","u","v","w","x","y","z">>

\* s.replace(" ", "")
StripSpaces(s) == SelectSeq(s, LAMBDA c : c # " ")
\* s.replace("j", "i")
ReplaceJ(s) == [i \in 1..Len(s) |-> IF s[i] = "j" THEN "i" ELSE s[i]]

\* args.secret_message.replace(" ", "").lower().replace("j", "i")
BifidNormalize(message) == ReplaceJ(StrLower(StripSpaces(message)))

\* the loop over the CSV rows and cells: square += cell.lower().replace("j", "i")
RECURSIVE LoadSquare(_)
LoadSquare(cells) ==
    IF cells = <<>> THEN <<>>
    ELSE ReplaceJ(StrLower(Head(cells))) \o LoadSquare(Tail(cells))

\* a plausible slip: only the length of the square is checked
SquareRejectedLenOnly(sq) == Len(sq) # 25

\* len(square) != 25 or set(square) != set(alphabet)
SquareRejected(sq) == Len(sq) # 25 \/ Range(sq) # Range(Alphabet25)

\* the lookup dictionaries built by `for idx, char in enumerate(square)`
\* (a later entry of a repeated key overwrites an earlier one)
CharToCoords(sq) ==
    [c \in Range(sq) |->
        LET idx == CHOOSE i \in 0..(Len(sq) - 1) :
                       /\ sq[i + 1] = c
                       /\ \A k \in (i + 1)..(Len(sq) - 1) : sq[k + 1] # c
        IN  <<idx \div 5, idx % 5>>]
CoordsToChar(sq) ==
    [rc \in { <<idx \div 5, idx % 5>> : idx \in 0..(Len(sq) - 1) } |->
        sq[rc[1] * 5 + rc[2] + 1]]

\* the message loop: the characters found in char_to_coords, in order
InGrid(message, c2c) == SelectSeq(message, LAMBDA c : c \in DOMAIN c2c)
RowsOf(message, c2c) ==
    [i \in 1..Len(InGrid(message, c2c)) |-> c2c[InGrid(message, c2c)[i]][1]]
ColsOf(message, c2c) ==
    [i \in 1..Len(InGrid(message, c2c)) |-> c2c[InGrid(message, c2c)[i]][2]]

\* a plausible slip: the columns are put first
CombineColsFirst(r, c) == c \o r

\* combined = rows + cols
Combine(r, c) == r \o c

\* the encoder's pairing loop: for i in range(0, len(combined), 2); a missing
\* combined[i + 1] is an IndexError, an unknown pair a KeyError
PairsRaise(comb, c2ch) ==
    \/ Len(comb) % 2 = 1
    \/ \E k \in 0..((Len(comb) \div 2) - 1) :
           <<comb[2 * k + 1], comb[2 * k + 2]>> \notin DOMAIN c2ch
\* a plausible slip: the step of 2 is forgotten, the pairs overlap
PairUpEveryIndex(comb, c2ch) ==
    [k \in 1..(Len(comb) - 1) |-> c2ch[<<comb[k], comb[k + 1]>>]]

PairUp(comb, c2ch) ==
    [k \in 1..(Len(comb) \div 2) |-> c2ch[<<comb[2 * k - 1], comb[2 * k]>>]]

\* the decoder's loop: combined.append(row); combined.append(col)
RECURSIVE Interleave(_, _)
Interleave(r, c) ==
    IF r = <<>> THEN <<>> ELSE <<Head(r), Head(c)>> \o Interleave(Tail(r), Tail(c))

\* mid = len(combined) // 2; rows = combined[:mid]; cols = combined[mid:]
SplitRows(comb) == Slice(comb, 0, Len(comb) \div 2)
SplitCols(comb) == SliceFrom(comb, Len(comb) \div 2)

\* the decoder's pairing loop: for i in range(len(rows))
RePairRaise(r, c, c2ch) ==
    \/ Len(c) < Len(r)
    \/ \E i \in 1..Min(Len(r), Len(c)) : <<r[i], c[i]>> \notin DOMAIN c2ch
RePair(r, c, c2ch) == [i \in 1..Len(r) |-> c2ch[<<r[i], c[i]>>]]

(* Inputs of the Bifid runs *)
SquareMultipliers == {1, 7}
AffineSquare(a, b) == [i \in 1..25 |-> Alphabet25[((a * (i - 1) + b) % 25) + 1]]
ValidSquares == { AffineSquare(a, b) : a \in SquareMultipliers, b \in 0..MaxSquareShift }
CellsOf(sq) == [i \in 1..Len(sq) |-> <<sq[i]>>]
VariedSquares == { AffineSquare(7, 0) }
\* CSV files: well-formed ones, spelled in upper case or with j for i, and
\* malformed ones: a repeated letter (24 unique), a cell missing, a cell too many,
\* two letters in one cell
CsvFiles ==
    { CellsOf(sq) : sq \in ValidSquares }
    \cup { CellsOf(StrUpper(sq)) : sq \in VariedSquares }
    \cup { CellsOf([i \in 1..25 |-> IF sq[i] = "i" THEN "j" ELSE sq[i]]) : sq \in VariedSquares }
    \cup { CellsOf([sq EXCEPT ![25] = sq[1]]) : sq \in VariedSquares }
    \cup { CellsOf(Slice(sq, 0, 24)) : sq \in VariedSquares }
    \cup { CellsOf(sq \o <<sq[1]>>) : sq \in VariedSquares }
    \cup { <<<<sq[1], sq[2]>>>> \o CellsOf(SliceFrom(sq, 2)) : sq \in VariedSquares }
BifidChars == {"h", "J", "1", " "}
\* the worked example: 'help'
HelpMessage == <<"h", "e", "l", "p">>
BifidMessages == SeqsUpTo(BifidChars, MaxMsgLen) \cup { HelpMessage }


InitBifid ==
    /\ pc = "start"
    /\ NoRun
    /\ \/ script = "BifidCipher" /\ args_message \in BifidMessages
          /\ args_encrypted = <<>>
       \/ script = "BifidDecipher" /\ args_encrypted \in BifidMessages
          /\ args_message = <<>>
    /\ \/ args_square = TRUE /\ csv_cells \in CsvFiles
       \/ args_square = FALSE /\ csv_cells = <<>> /\ script = "BifidCipher"
    /\ square = <<>> /\ char_to_coords = <<>> /\ coords_to_char = <<>>
    /\ rows = <<>> /\ cols = <<>> /\ combined = <<>>
    /\ secret_message = <<>> /\ ciphertext = <<>>
    /\ encrypted_message = <<>> /\ decrypted_message = <<>>
    /\ ChaoIdle
    /\ LateIdle
    /\ AdfgvxIdle
    /\ SimpleIdle

\* exit(1) after printing an error
ExitWithError(message) ==
    /\ pc' = "exited"
    /\ exit_status' = 1
    /\ error_message' = message

\* BifidCipher.py lines 24-45: the message is normalised, the square is loaded
\* from the CSV file and checked, or shuffled at random
BifidCipherSquare ==
    /\ UNCHANGED notBifid
    /\ script = "BifidCipher" /\ pc = "start"
    /\ secret_message' = BifidNormalize(args_message)
    /\ IF args_square
       THEN /\ square' = LoadSquare(csv_cells)
            /\ events' = Append(events, "check_square")
            /\ IF SquareRejected(LoadSquare(csv_cells))
               THEN ExitWithError("CSV must contain exactly 25 unique letters (no J)")
               ELSE /\ pc' = "tables"
                    /\ UNCHANGED <<exit_status, error_message>>
       ELSE /\ square' \in ValidSquares
            /\ events' = Append(events, "shuffle")
            /\ pc' = "tables"
            /\ UNCHANGED <<exit_status, error_message>>
    /\ UNCHANGED <<script, args_message, args_encrypted, args_square, csv_cells, char_to_coords,
                   coords_to_char, rows, cols, combined, ciphertext,
                   encrypted_message, decrypted_message>>

\* lines 47-54 (BifidDecipher.py lines 38-45): the lookup dictionaries
BifidTables ==
    /\ UNCHANGED notBifid
    /\ script \in {"BifidCipher", "BifidDecipher"} /\ pc = "tables"
    /\ char_to_coords' = CharToCoords(square)
    /\ coords_to_char' = CoordsToChar(square)
    /\ events' = Append(events, "tables")
    /\ pc' = "coords"
    /\ UNCHANGED <<script, exit_status, error_message, args_message, args_encrypted, args_square,
                   csv_cells, square, rows, cols, combined, textVars>>

\* BifidCipher.py lines 56-66: the message is turned into rows and cols, combined
BifidCipherCoords ==
    /\ UNCHANGED notBifid
    /\ script = "BifidCipher" /\ pc = "coords"
    /\ rows' = RowsOf(secret_message, char_to_coords)
    /\ cols' = ColsOf(secret_message, char_to_coords)
    /\ combined' = Combine(RowsOf(secret_message, char_to_coords),
                           ColsOf(secret_message, char_to_coords))
    /\ events' = IF secret_message = <<>> THEN events ELSE Append(events, "lookup")
    /\ pc' = "pairs"
    /\ UNCHANGED <<script, exit_status, error_message, args_message, args_encrypted, args_square,
                   csv_cells, square, char_to_coords, coords_to_char, textVars>>

\* BifidCipher.py lines 68-79: the pairs are turned into letters and printed
BifidCipherPairs ==
    /\ UNCHANGED notBifid
    /\ script = "BifidCipher" /\ pc = "pairs"
    /\ IF PairsRaise(combined, coords_to_char)
       THEN /\ Raise("IndexError")
            /\ UNCHANGED <<encrypted_message, events>>
       ELSE /\ encrypted_message' = PairUp(combined, coords_to_char)
            /\ events' = Append(events, "output")
            /\ pc' = "done"
            /\ exit_status' = 0
            /\ UNCHANGED error_message
    /\ UNCHANGED <<script, args_message, args_encrypted, args_square, csv_cells, square,
                   char_to_coords, coords_to_char, rows, cols, combined,
                   secret_message, ciphertext, decrypted_message>>

\* BifidDecipher.py is run on the printed message with the square that
\* BifidCipher.py used (its CSV file, or the printed square typed into one)
BifidRunDecipher ==
    /\ UNCHANGED notBifid
    /\ script = "BifidCipher" /\ pc = "done"
    /\ script' = "BifidDecipher"
    /\ pc' = "start"
    /\ exit_status' = -1
    /\ events' = <<>>
    /\ args_square' = TRUE
    /\ args_encrypted' = encrypted_message
    /\ csv_cells' = IF args_square THEN csv_cells ELSE CellsOf(square)
    /\ square' = <<>> /\ char_to_coords' = <<>> /\ coords_to_char' = <<>>
    /\ rows' = <<>> /\ cols' = <<>> /\ combined' = <<>>
    /\ UNCHANGED <<error_message, args_message, textVars>>

\* BifidDecipher.py lines 22-36: the message is normalised, the square is loaded
\* from the CSV file and checked
BifidDecipherSquare ==
    /\ UNCHANGED notBifid
    /\ script = "BifidDecipher" /\ pc = "start"
    /\ encrypted_message' = BifidNormalize(args_encrypted)
    /\ square' = LoadSquare(csv_cells)
    /\ events' = Append(events, "check_square")
    /\ IF SquareRejected(LoadSquare(csv_cells))
       THEN ExitWithError("CSV must contain exactly 25 unique letters (no J)")
       ELSE /\ pc' = "tables"
            /\ UNCHANGED <<exit_status, error_message>>
    /\ UNCHANGED <<script, args_message, args_encrypted, args_square, csv_cells, char_to_coords,
                   coords_to_char, rows, cols, combined, secret_message, ciphertext,
                   decrypted_message>>

\* BifidDecipher.py lines 47-58: ciphertext to coordinates, split at the midpoint
BifidDecipherCoords ==
    /\ UNCHANGED notBifid
    /\ script = "BifidDecipher" /\ pc = "coords"
    /\ LET comb == Interleave(RowsOf(encrypted_message, char_to_coords),
                              ColsOf(encrypted_message, char_to_coords))
       IN  /\ combined' = comb
           /\ rows' = SplitRows(comb)
           /\ cols' = SplitCols(comb)
    /\ events' = IF encrypted_message = <<>> THEN events ELSE Append(events, "lookup")
    /\ pc' = "pairs"
    /\ UNCHANGED <<script, exit_status, error_message, args_message, args_encrypted, args_square,
                   csv_cells, square, char_to_coords, coords_to_char, textVars>>

\* BifidDecipher.py lines 60-71: rows and cols are paired up and printed
BifidDecipherPairs ==
    /\ UNCHANGED notBifid
    /\ script = "BifidDecipher" /\ pc = "pairs"
    /\ IF RePairRaise(rows, cols, coords_to_char)
       THEN /\ Raise("IndexError")
            /\ UNCHANGED <<decrypted_message, events>>
       ELSE /\ decrypted_message' = RePair(rows, cols, coords_to_char)
            /\ events' = Append(events, "output")
            /\ pc' = "done"
            /\ exit_status' = 0
            /\ UNCHANGED error_message
    /\ UNCHANGED <<script, args_message, args_encrypted, args_square, csv_cells, square,
                   char_to_coords, coords_to_char, rows, cols, combined,
                   secret_message, ciphertext, encrypted_message>>

NextBifid == \/ BifidCipherSquare
             \/ BifidTables
             \/ BifidCipherCoords
             \/ BifidCipherPairs
             \/ BifidRunDecipher
             \/ BifidDecipherSquare
             \/ BifidDecipherCoords
             \/ BifidDecipherPairs

SpecBifid == InitBifid /\ [][NextBifid]_vars

-----------------------------------------------------------------------------
(* ADFGVXcipher.py and ADFGVXdecipher.py *)

\* polybius_label and polybius_matrix_size after the `!= "small"` adjustment
PolybiusLabel(size) == IF size # "small" THEN <<"A", "D", "F", "G", "V", "X">>
                       ELSE <<"A", "D", "F", "G", "X">>
PolybiusMatrixSize(size) == IF size # "small" THEN 6 ELSE 5

\* alphabet: a list of cells, the last cell of the small square is "i/j"
SmallLetters == <<"a","b","c","d","e","f","g","h","k","l","m","n",
                  "o","p","q","r","s","t","u","v","w","x","y","z">>
BigExtras == <<"i","j","0","1","2","3","4","5","6","7","8","9">>
PolybiusAlphabet(size) ==
    IF size # "small"
    THEN [i \in 1..36 |-> IF i <= 24 THEN <<SmallLetters[i]>> ELSE <<BigExtras[i - 24]>>]
    ELSE [i \in 1..25 |-> IF i <= 24 THEN <<SmallLetters[i]>> ELSE <<"i", "/", "j">>]

\* polybius_matrix[i][j] = alphabet[i*polybius_matrix_size + j]
MatrixOf(alphabet, n) == [i \in 1..n |-> [j \in 1..n |-> alphabet[(i - 1) * n + j]]]

\* find_polybius_char: the first (p, k) in row order whose cell contains the
\* character; <<>> stands for the None returned when no cell does
find_polybius_char(matrix, character, size) ==
    LET Hit(p, k) == Contains(matrix[p + 1][k + 1], character)
        Cells == (0..(size - 1)) \X (0..(size - 1))
    IN  IF \E pk \in Cells : Hit(pk[1], pk[2])
        THEN CHOOSE pk \in Cells :
                 /\ Hit(pk[1], pk[2])
                 /\ \A qk \in Cells :
                        (qk[1] < pk[1] \/ (qk[1] = pk[1] /\ qk[2] < pk[2]))
                            => ~ Hit(qk[1], qk[2])
        ELSE <<>>

\* the labels appended by the stage-1 loop, in order: row label, column label
RECURSIVE LabelStream(_, _, _)
LabelStream(message, matrix, size) ==
    IF message = <<>> THEN <<>>
    ELSE LET pk == find_polybius_char(matrix, Head(message), PolybiusMatrixSize(size))
         IN  <<PolybiusLabel(size)[pk[1] + 1], PolybiusLabel(size)[pk[2] + 1]>>
                 \o LabelStream(Tail(message), matrix, size)

\* the stage-1 loop fails when a character is in no cell (None is unpacked) or
\* when ciphered_stage1_matrix is empty (no key character)
Stage1Raises(message, matrix, size, keylen) ==
    \/ \E i \in 1..Len(message) : find_polybius_char(matrix, message[i], size) = <<>>
    \/ message # <<>> /\ keylen = 0

\* a plausible slip: the bucket index runs downwards
RECURSIVE DistributeDownwards(_, _, _)
DistributeDownwards(stream, buckets, row) ==
    IF stream = <<>> THEN buckets
    ELSE DistributeDownwards(Tail(stream),
                             [buckets EXCEPT ![row + 1] = Append(@, Head(stream))],
                             (row + Len(buckets) - 1) % Len(buckets))

\* ciphered_stage1_matrix[row].append(label); row = (row + 1) % transposition_key_len
RECURSIVE Distribute(_, _, _)
Distribute(stream, buckets, row) ==
    IF stream = <<>> THEN buckets
    ELSE Distribute(Tail(stream),
                    [buckets EXCEPT ![row + 1] = Append(@, Head(stream))],
                    (row + 1) % Len(buckets))

\* a plausible slip: only neighbouring key characters are compared
KeyHasAdjacentDuplicate(key) ==
    \E i \in 1..(Len(key) - 1) : key[i] = key[i + 1]

\* the index_dict loop meets a character that is already in index_dict
KeyHasDuplicate(key) ==
    \E i \in 1..Len(key) : \E j \in 1..(i - 1) : key[j] = key[i]

\* index_dict[transposition_key[i]] = i (a later position overwrites an earlier)
IndexDict(key) ==
    [c \in Range(key) |->
        CHOOSE i \in 0..(Len(key) - 1) :
            /\ key[i + 1] = c
            /\ \A k \in (i + 1)..(Len(key) - 1) : key[k + 1] # c]

\* the order of the (lower-case) key characters under sorted()
CharOrd(c) == Index0(LowerLetters, c)

\* the values of collections.OrderedDict(sorted(index_dict.items())), in order
RECURSIVE SortedKeys(_)
SortedKeys(S) ==
    IF S = {} THEN <<>>
    ELSE LET m == CHOOSE c \in S : \A o \in S : CharOrd(c) <= CharOrd(o)
         IN  <<m>> \o SortedKeys(S \ {m})
SortedIndices(d) == [r \in 1..Cardinality(DOMAIN d) |-> d[SortedKeys(DOMAIN d)[r]]]

\* transposition_matrix[row] = "".join(ciphered_stage1_matrix[new_index])
TranspositionMatrix(buckets, sorted, keylen) ==
    [r \in 1..keylen |-> IF r <= Len(sorted) THEN buckets[sorted[r] + 1] ELSE <<>>]

\* " ".join(strings)
RECURSIVE JoinSpaces(_)
JoinSpaces(strings) ==
    IF strings = <<>> THEN <<>>
    ELSE IF Len(strings) = 1 THEN Head(strings)
    ELSE Head(strings) \o <<" ">> \o JoinSpaces(Tail(strings))

\* str.split(): the maximal runs of non-blank characters
RECURSIVE SplitAcc(_, _, _)
SplitAcc(s, word, acc) ==
    IF s = <<>> THEN (IF word = <<>> THEN acc ELSE Append(acc, word))
    ELSE IF Head(s) = " "
         THEN SplitAcc(Tail(s), <<>>, IF word = <<>> THEN acc ELSE Append(acc, word))
         ELSE SplitAcc(Tail(s), Append(word, Head(s)), acc)
SplitBlanks(s) == SplitAcc(s, <<>>, <<>>)

\* "".join(strings)
RECURSIVE Concat(_)
Concat(strings) ==
    IF strings = <<>> THEN <<>> ELSE Head(strings) \o Concat(Tail(strings))

\* [cell.strip().lower() for cell in row] of every row
StripCell(cell) == StrLower(StripSpaces(cell))
ReadCsv(file_rows) ==
    [i \in 1..Len(file_rows) |-> [j \in 1..Len(file_rows[i]) |-> StripCell(file_rows[i][j])]]

\* the size checks of the loaded matrix: "" or the error printed before exit(1)
MatrixSizeError(matrix, size) ==
    IF Len(matrix) # PolybiusMatrixSize(size) THEN "Error: Polybius square must have N rows"
    ELSE IF \E i \in 1..Len(matrix) : Len(matrix[i]) # PolybiusMatrixSize(size)
         THEN "Error: Row must have N columns"
    ELSE ""

\* original_columns[original_index] = columns[col_idx] fails when columns is short
ColumnsRaise(cols_in, sorted) == Len(cols_in) < Len(sorted)
OriginalColumns(cols_in, sorted, keylen) ==
    [j \in 1..keylen |->
        IF \E r \in 1..Len(sorted) : sorted[r] = j - 1
        THEN cols_in[CHOOSE r \in 1..Len(sorted) : sorted[r] = j - 1]
        ELSE <<>>]

\* for i in range(len(original_columns)): for j in range(len(original_columns)):
\*     if i < len(original_columns[j]): intermediate += original_columns[j][i]
RECURSIVE ReadFrom(_, _)
ReadFrom(oc, n) ==
    IF n >= Len(oc) * Len(oc) THEN <<>>
    ELSE LET i == n \div Len(oc)
             j == n % Len(oc)
         IN  (IF i < Len(oc[j + 1]) THEN <<oc[j + 1][i + 1]>> ELSE <<>>)
                 \o ReadFrom(oc, n + 1)
ReadColumns(oc) == ReadFrom(oc, 0)

\* the decoding loop fails on a missing intermediate[i+1] (IndexError) and on a
\* label that polybius_label does not hold (ValueError)
DecodeRaises(stream, size) ==
    \/ Len(stream) % 2 = 1
    \/ \E i \in 1..Len(stream) : ~ Contains(PolybiusLabel(size), stream[i])
DecodeLabels(stream, matrix, size) ==
    Concat([k \in 1..(Len(stream) \div 2) |->
               matrix[Index0(PolybiusLabel(size), stream[2 * k - 1]) + 1]
                     [Index0(PolybiusLabel(size), stream[2 * k]) + 1]])

(* Inputs of the ADFGVX runs *)
Shuffles == {<<1, 0>>, <<7, 3>>}
ShuffledAlphabet(size, a, b) ==
    LET alpha == PolybiusAlphabet(size)
    IN  [i \in 1..Len(alpha) |-> alpha[((a * (i - 1) + b) % Len(alpha)) + 1]]
PolybiusSizes == {"small", "big"}
KeyChars == {"z", "e", "B"}
\* the worked example: key 'zebra' and a message of five characters, which
\* gives a stream of ten labels
ZebraKey == <<"z", "e", "b", "r", "a">>
TenLabelMessage == <<"a", "I", "z", "k", "e">>
KeyInputs == SeqsUpTo(KeyChars, MaxKeyLen) \cup { ZebraKey }
AdfgvxChars == {"I", "0"}
AdfgvxMessages == SeqsUpTo(AdfgvxChars, MaxMsgLen) \cup { TenLabelMessage }

CiphertextInputs == { <<"A", "D", " ", "F", "G">>, <<"A", "D", "x">>, <<"G">> }
\* CSV files: the squares the encoder can print, one with a short row, and
\* one 6x6 file whose first two cells hold the same symbol
CsvSquares ==
    { MatrixOf(ShuffledAlphabet(sz, sh[1], sh[2]), PolybiusMatrixSize(sz)) :
          sz \in PolybiusSizes, sh \in Shuffles }
    \cup { [MatrixOf(PolybiusAlphabet("big"), 6) EXCEPT ![6] = Slice(@, 0, 5)] }
    \cup { [MatrixOf(PolybiusAlphabet("big"), 6) EXCEPT ![1][2] = <<"a">>] }

InitAdfgvx ==
    /\ pc = "start"
    /\ NoRun
    /\ args_key \in KeyInputs
    /\ args_size \in PolybiusSizes
    /\ \/ /\ script = "ADFGVXcipher"
          /\ args_message \in AdfgvxMessages
          /\ args_encrypted = <<>>
          /\ file_found = FALSE /\ csv_rows = <<>>
       \/ /\ script = "ADFGVXdecipher"
          /\ args_message = <<>>
          /\ args_encrypted \in CiphertextInputs
          /\ \/ file_found = TRUE /\ csv_rows \in CsvSquares
             \/ file_found = FALSE /\ csv_rows = <<>>
    /\ transposition_key = <<>> /\ polybius_matrix = <<>>
    /\ ciphered_stage1_matrix = <<>> /\ index_dict = <<>>
    /\ transposition_matrix = <<>> /\ columns = <<>>
    /\ original_columns = <<>> /\ intermediate = <<>>
    /\ secret_message = <<>> /\ ciphertext = <<>>
    /\ encrypted_message = <<>> /\ decrypted_message = <<>>
    /\ ChaoIdle
    /\ LateIdle
    /\ BifidIdle
    /\ SimpleIdle

\* sys.exit() after printing an error: the exit status is 0
ExitSilently(message) ==
    /\ pc' = "exited"
    /\ exit_status' = 0
    /\ error_message' = message

\* ADFGVXcipher.py lines 35-51: the arguments are normalised and the shuffled
\* alphabet is laid out in the square
AdfgvxCipherSetup ==
    /\ UNCHANGED notAdfgvx
    /\ script = "ADFGVXcipher" /\ pc = "start"
    /\ secret_message' = StrLower(StripSpaces(args_message))
    /\ transposition_key' = StrLower(StripSpaces(args_key))
    /\ \E sh \in Shuffles :
           polybius_matrix' = MatrixOf(ShuffledAlphabet(args_size, sh[1], sh[2]),
                                       PolybiusMatrixSize(args_size))
    /\ events' = Append(events, "setup")
    /\ pc' = "stage1"
    /\ UNCHANGED <<script, exit_status, error_message, ciphertext,
                   encrypted_message, decrypted_message, args_message,
                   args_encrypted, args_key, args_size, ciphered_stage1_matrix,
                   index_dict, transposition_matrix, file_found, csv_rows,
                   columns, original_columns, intermediate>>


\* ADFGVXcipher.py lines 53-63: every message character is looked up in the
\* square and its two labels are dealt to the buckets
AdfgvxCipherStage1 ==
    /\ UNCHANGED notAdfgvx
    /\ script = "ADFGVXcipher" /\ pc = "stage1"
    /\ events' = IF secret_message = <<>> THEN events ELSE Append(events, "lookup")
    /\ IF Stage1Raises(secret_message, polybius_matrix, PolybiusMatrixSize(args_size),
                       Len(transposition_key))
       THEN /\ Raise("TypeError: cannot unpack non-iterable NoneType object")
            /\ UNCHANGED ciphered_stage1_matrix
       ELSE /\ ciphered_stage1_matrix' =
                   Distribute(LabelStream(secret_message, polybius_matrix, args_size),
                              [b \in 1..Len(transposition_key) |-> <<>>], 0)
            /\ pc' = "check_key"
            /\ UNCHANGED <<exit_status, error_message>>
    /\ UNCHANGED <<script, secret_message, ciphertext, encrypted_message,
                   decrypted_message, args_message, args_encrypted, args_key,
                   args_size, transposition_key, polybius_matrix, index_dict,
                   transposition_matrix, file_found, csv_rows, columns,
                   original_columns, intermediate>>


\* ADFGVXcipher.py lines 69-74: index_dict is filled; a repeated key character
\* prints the error and calls sys.exit()
AdfgvxCipherKey ==
    /\ UNCHANGED notAdfgvx
    /\ script = "ADFGVXcipher" /\ pc = "check_key"
    /\ events' = Append(events, "check_key")
    /\ IF KeyHasDuplicate(transposition_key)
       THEN /\ ExitSilently("Error: Transposition key must be all unique characters")
            /\ UNCHANGED index_dict
       ELSE /\ index_dict' = IndexDict(transposition_key)
            /\ pc' = "transpose"
            /\ UNCHANGED <<exit_status, error_message>>
    /\ UNCHANGED <<script, secret_message, ciphertext, encrypted_message,
                   decrypted_message, args_message, args_encrypted, args_key,
                   args_size, transposition_key, polybius_matrix,
                   ciphered_stage1_matrix, transposition_matrix, file_found,
                   csv_rows, columns, original_columns, intermediate>>


\* ADFGVXcipher.py lines 76-102: the buckets are put in key order, joined with
\* blanks and printed
AdfgvxCipherTranspose ==
    /\ UNCHANGED notAdfgvx
    /\ script = "ADFGVXcipher" /\ pc = "transpose"
    /\ LET tm == TranspositionMatrix(ciphered_stage1_matrix, SortedIndices(index_dict),
                                     Len(transposition_key))
       IN  /\ transposition_matrix' = tm
           /\ ciphertext' = JoinSpaces(tm)
    /\ events' = events \o <<"reorder", "output">>
    /\ pc' = "done"
    /\ exit_status' = 0
    /\ UNCHANGED <<script, error_message, secret_message, encrypted_message,
                   decrypted_message, args_message, args_encrypted, args_key,
                   args_size, transposition_key, polybius_matrix,
                   ciphered_stage1_matrix, index_dict, file_found, csv_rows,
                   columns, original_columns, intermediate>>


\* ADFGVXdecipher.py is run on the printed ciphertext with the same key and size
\* and the printed square typed into a CSV file
AdfgvxRunDecipher ==
    /\ UNCHANGED notAdfgvx
    /\ script = "ADFGVXcipher" /\ pc = "done"
    /\ script' = "ADFGVXdecipher"
    /\ pc' = "start"
    /\ exit_status' = -1
    /\ events' = <<>>
    /\ args_encrypted' = ciphertext
    /\ file_found' = TRUE
    /\ csv_rows' = polybius_matrix
    /\ transposition_key' = <<>>
    /\ polybius_matrix' = <<>>
    /\ index_dict' = <<>>
    /\ UNCHANGED <<error_message, secret_message, ciphertext, encrypted_message,
                   decrypted_message, args_message, args_key, args_size,
                   ciphered_stage1_matrix, transposition_matrix, columns,
                   original_columns, intermediate>>


\* ADFGVXdecipher.py lines 35-56: the arguments are normalised and the square
\* is read from the CSV file
AdfgvxDecipherLoad ==
    /\ UNCHANGED notAdfgvx
    /\ script = "ADFGVXdecipher" /\ pc = "start"
    /\ encrypted_message' = StrUpper(StripSpaces(args_encrypted))
    /\ transposition_key' = StrLower(StripSpaces(args_key))
    /\ events' = Append(events, "load")
    /\ IF ~ file_found
       THEN /\ ExitWithError("Error: Could not find file")
            /\ UNCHANGED polybius_matrix
       ELSE /\ polybius_matrix' = ReadCsv(csv_rows)
            /\ pc' = "check_grid"
            /\ UNCHANGED <<exit_status, error_message>>
    /\ UNCHANGED <<script, secret_message, ciphertext, decrypted_message,
                   args_message, args_encrypted, args_key, args_size,
                   ciphered_stage1_matrix, index_dict, transposition_matrix,
                   file_found, csv_rows, columns, original_columns,
                   intermediate>>


\* ADFGVXdecipher.py lines 58-67: the row count and every row's length
AdfgvxDecipherGrid ==
    /\ UNCHANGED notAdfgvx
    /\ script = "ADFGVXdecipher" /\ pc = "check_grid"
    /\ events' = Append(events, "check_grid")
    /\ IF MatrixSizeError(polybius_matrix, args_size) # ""
       THEN ExitWithError(MatrixSizeError(polybius_matrix, args_size))
       ELSE /\ pc' = "check_key"
            /\ UNCHANGED <<exit_status, error_message>>
    /\ UNCHANGED <<script, secret_message, ciphertext, encrypted_message,
                   decrypted_message, args_message, args_encrypted, args_key,
                   args_size, transposition_key, polybius_matrix,
                   ciphered_stage1_matrix, index_dict, transposition_matrix,
                   file_found, csv_rows, columns, original_columns,
                   intermediate>>


\* ADFGVXdecipher.py lines 69-79: the message is split into columns and
\* index_dict is filled; a repeated key character prints the error and calls
\* sys.exit()
AdfgvxDecipherKey ==
    /\ UNCHANGED notAdfgvx
    /\ script = "ADFGVXdecipher" /\ pc = "check_key"
    /\ columns' = SplitBlanks(args_encrypted)
    /\ events' = Append(events, "check_key")
    /\ IF KeyHasDuplicate(transposition_key)
       THEN /\ ExitSilently("Error: Transposition key must be all unique characters")
            /\ UNCHANGED index_dict
       ELSE /\ index_dict' = IndexDict(transposition_key)
            /\ pc' = "columns"
            /\ UNCHANGED <<exit_status, error_message>>
    /\ UNCHANGED <<script, secret_message, ciphertext, encrypted_message,
                   decrypted_message, args_message, args_encrypted, args_key,
                   args_size, transposition_key, polybius_matrix,
                   ciphered_stage1_matrix, transposition_matrix, file_found,
                   csv_rows, original_columns, intermediate>>


\* ADFGVXdecipher.py lines 81-88: every received column goes back to its
\* original position
AdfgvxDecipherColumns ==
    /\ UNCHANGED notAdfgvx
    /\ script = "ADFGVXdecipher" /\ pc = "columns"
    /\ events' = Append(events, "reorder")
    /\ IF ColumnsRaise(columns, SortedIndices(index_dict))
       THEN /\ Raise("IndexError: list index out of range")
            /\ UNCHANGED original_columns
       ELSE /\ original_columns' = OriginalColumns(columns, SortedIndices(index_dict),
                                                   Len(transposition_key))
            /\ pc' = "read"
            /\ UNCHANGED <<exit_status, error_message>>
    /\ UNCHANGED <<script, secret_message, ciphertext, encrypted_message,
                   decrypted_message, args_message, args_encrypted, args_key,
                   args_size, transposition_key, polybius_matrix,
                   ciphered_stage1_matrix, index_dict, transposition_matrix,
                   file_found, csv_rows, columns, intermediate>>


\* ADFGVXdecipher.py lines 90-95: the columns are read row by row
AdfgvxDecipherRead ==
    /\ UNCHANGED notAdfgvx
    /\ script = "ADFGVXdecipher" /\ pc = "read"
    /\ intermediate' = ReadColumns(original_columns)
    /\ events' = Append(events, "read")
    /\ pc' = "decode"
    /\ UNCHANGED <<script, exit_status, error_message, secret_message,
                   ciphertext, encrypted_message, decrypted_message,
                   args_message, args_encrypted, args_key, args_size,
                   transposition_key, polybius_matrix, ciphered_stage1_matrix,
                   index_dict, transposition_matrix, file_found, csv_rows,
                   columns, original_columns>>


\* ADFGVXdecipher.py lines 97-122: the label pairs are looked up in the square
\* and the message is printed
AdfgvxDecipherDecode ==
    /\ UNCHANGED notAdfgvx
    /\ script = "ADFGVXdecipher" /\ pc = "decode"
    /\ IF DecodeRaises(intermediate, args_size)
       THEN /\ Raise("IndexError or ValueError")
            /\ events' = Append(events, "lookup")
            /\ UNCHANGED decrypted_message
       ELSE /\ decrypted_message' = DecodeLabels(intermediate, polybius_matrix, args_size)
            /\ events' = (IF intermediate = <<>> THEN events ELSE Append(events, "lookup"))
                              \o <<"output">>
            /\ pc' = "done"
            /\ exit_status' = 0
            /\ UNCHANGED error_message
    /\ UNCHANGED <<script, secret_message, ciphertext, encrypted_message,
                   args_message, args_encrypted, args_key, args_size,
                   transposition_key, polybius_matrix, ciphered_stage1_matrix,
                   index_dict, transposition_matrix, file_found, csv_rows,
                   columns, original_columns, intermediate>>

NextAdfgvx == \/ AdfgvxCipherSetup
              \/ AdfgvxCipherStage1
              \/ AdfgvxCipherKey
              \/ AdfgvxCipherTranspose
              \/ AdfgvxRunDecipher
              \/ AdfgvxDecipherLoad
              \/ AdfgvxDecipherGrid
              \/ AdfgvxDecipherKey
              \/ AdfgvxDecipherColumns
              \/ AdfgvxDecipherRead
              \/ AdfgvxDecipherDecode

SpecAdfgvx == InitAdfgvx /\ [][NextAdfgvx]_vars

-----------------------------------------------------------------------------
(* Claims about BifidCipher.py and BifidDecipher.py *)

\* the run of BifidDecipher.py on the output of a BifidCipher.py run
BifidRoundTrip == script = "BifidDecipher" /\ args_message # <<>>

LettersAndSpaces(message) ==
    \A i \in 1..Len(message) : IsAlpha(message[i]) \/ message[i] = " "

\* C4: for every valid square and every non-empty alphabetic message M of any
\* length, BifidDecipher applied to BifidCipher's ciphertext with the same square
\* returns M lowercased, spaces stripped, j replaced by i (and neither run fails).
C4_BifidRoundTrip ==
    /\ (script = "BifidCipher" /\ args_message # <<>>) => pc # "raised"
    /\ BifidRoundTrip => pc \notin {"raised", "exited"}
    /\ (BifidRoundTrip /\ pc = "done" /\ LettersAndSpaces(args_message))
           => decrypted_message = ReplaceJ(StrLower(StripSpaces(args_message)))

C4_Witness ==
    /\ BifidRoundTrip /\ pc = "done"
    /\ LettersAndSpaces(args_message)
    /\ Len(decrypted_message) = 3
    /\ Contains(args_message, "J")
    /\ Contains(decrypted_message, "i")
    /\ encrypted_message # decrypted_message
    /\ decrypted_message = ReplaceJ(StrLower(StripSpaces(args_message)))

\* the loaded cells form exactly 25 characters whose set is the alphabet without j
LoadedSquareWellFormed ==
    LET sq == LoadSquare(csv_cells)
    IN  /\ Len(sq) = 25
        /\ \A i \in 1..Len(sq) : Contains(Alphabet25, sq[i])
        /\ \A k \in 1..25 : Contains(sq, Alphabet25[k])

\* C10: given an external square, BifidCipher and BifidDecipher stop with exit
\* status 1 before the lookup tables are built unless the loaded cells form
\* exactly 25 characters whose set is the 25-letter alphabet; a square with only
\* 24 unique entries is never accepted.
C10_BifidSquareChecked ==
    (script \in {"BifidCipher", "BifidDecipher"} /\ args_square) =>
        /\ (Happened("tables") \/ char_to_coords # <<>>) => LoadedSquareWellFormed
        /\ (Happened("check_square") /\ ~ LoadedSquareWellFormed) =>
              /\ pc = "exited"
              /\ exit_status = 1
              /\ error_message # ""
              /\ char_to_coords = <<>> /\ coords_to_char = <<>>
              /\ ~ Happened("tables")

C10_Witness ==
    /\ script = "BifidDecipher" /\ args_message = <<>>
    /\ pc = "exited" /\ exit_status = 1
    /\ Len(square) = 25
    /\ Cardinality(Range(square)) = 24
    /\ char_to_coords = <<>>

\* the normalised message without the characters that are not in the grid
InGridMessage == InGrid(secret_message, char_to_coords)

BifidEncoded == script = "BifidCipher" /\ pc = "done"

\* C14 as stated: when the Bifid message has an odd number of characters after
\* removing characters that are not in the grid, the encoder silently drops the
\* final character, so the ciphertext carries one character fewer than the
\* normalised message.
C14_OddDropsFinal ==
    (BifidEncoded /\ Len(InGridMessage) % 2 = 1) =>
        Len(encrypted_message) = Len(InGridMessage) - 1

\* C14 amended: the Bifid encoder drops nothing.  combined = rows + cols has
\* twice as many entries as the message has characters in the grid, so for odd
\* and even messages alike the pairing loop never fails and the ciphertext
\* carries exactly as many characters as the normalised in-grid message.
C14_NothingDropped ==
    script = "BifidCipher" =>
        /\ Happened("tables") => pc # "raised"
        /\ pc \in {"pairs", "done"} => Len(combined) = 2 * Len(InGridMessage)
        /\ pc = "done" => Len(encrypted_message) = Len(InGridMessage)

C14_Witness ==
    /\ BifidEncoded
    /\ Len(args_message) = 3
    /\ Len(InGridMessage) = 3
    /\ Len(encrypted_message) = 3

\* the character of the square at (row, col)
SquareAt(row, col) == square[row * 5 + col + 1]

\* C25: BifidCipher's ciphertext is obtained by concatenating all row indices
\* of the message followed by all its column indices and re-pairing that
\* combined sequence two at a time through the grid; with the grid
\* 'abcdefghiklmnopqrstuvwxyz' laid out row-major, 'help' encrypts to 'fnpe'
\* and BifidDecipher turns 'fnpe' back into 'help'.
C25_Fractionation ==
    /\ BifidEncoded =>
           LET n == Len(InGridMessage)
           IN  /\ Len(rows) = n /\ Len(cols) = n
               /\ \A i \in 1..n : SquareAt(rows[i], cols[i]) = InGridMessage[i]
               /\ Len(combined) = 2 * n
               /\ \A i \in 1..n : combined[i] = rows[i] /\ combined[n + i] = cols[i]
               /\ Len(encrypted_message) = n
               /\ \A k \in 1..n :
                      encrypted_message[k] = SquareAt(combined[2 * k - 1], combined[2 * k])
    /\ (BifidEncoded /\ square = Alphabet25 /\ args_message = HelpMessage)
           => encrypted_message = <<"f", "n", "p", "e">>
    /\ (/\ script = "BifidDecipher" /\ pc = "done"
        /\ square = Alphabet25 /\ args_encrypted = <<"f", "n", "p", "e">>)
           => decrypted_message = HelpMessage

C25_Witness ==
    /\ script = "BifidDecipher" /\ pc = "done"
    /\ square = Alphabet25
    /\ args_message = HelpMessage
    /\ args_encrypted = <<"f", "n", "p", "e">>
    /\ combined = <<1, 0, 2, 2, 2, 4, 0, 4>>
    /\ decrypted_message = HelpMessage


-----------------------------------------------------------------------------
(* Claims about ADFGVXcipher.py and ADFGVXdecipher.py *)

\* the run of ADFGVXdecipher.py on the output of an ADFGVXcipher.py run
AdfgvxRoundTrip == script = "ADFGVXdecipher" /\ args_message # <<>>

\* C5: for every valid grid, every key with unique characters and every
\* non-empty message of grid symbols, ADFGVXdecipher applied to ADFGVXcipher's
\* ciphertext with the same grid and key returns the message lowercased with
\* spaces stripped.
C5_AdfgvxRoundTrip ==
    AdfgvxRoundTrip =>
        /\ pc \notin {"raised", "exited"}
        /\ pc = "done" => decrypted_message = StrLower(StripSpaces(args_message))

\* C6: for every key with unique characters and every label stream, the
\* decoder's inversion (columns back to their bucket positions, buckets read row
\* by row) returns exactly the stream the encoder dealt into the buckets.
C6_TranspositionInverse ==
    AdfgvxRoundTrip =>
        /\ (pc = "raised" => Happened("read"))
        /\ Happened("read") =>
               intermediate = LabelStream(secret_message, ReadCsv(csv_rows), args_size)

KeyRepeats(key) == Cardinality(Range(key)) < Len(key)
UniqueKeyError == "Error: Transposition key must be all unique characters"

C8_ExitStatus ==
    /\ pc = "exited" => (exit_status # 0 /\ error_message # "")
    /\ exit_status = 0 => Happened("output")

\* the validations a script performs
Validations ==
    CASE script = "ADFGVXcipher" -> {"check_key"}
      [] script = "ADFGVXdecipher" -> {"check_grid", "check_key"}
      [] script \in {"BifidCipher", "BifidDecipher"} ->
             IF args_square THEN {"check_square"} ELSE {}
      [] script = "ChaocipherCipher" -> {"validate_left", "validate_right"}
      [] OTHER -> {}

\* C9: in every core script all input validation is completed before the first
\* message character is looked up or transformed.
C9_ValidationFirst ==
    \A i \in 1..Len(events) :
        events[i] = "lookup" =>
            \A v \in Validations : \E j \in 1..(i - 1) : events[j] = v

\* the loaded grid has N rows of N cells and no symbol in more than one cell
GridWellFormed(matrix, size) ==
    /\ Len(matrix) = PolybiusMatrixSize(size)
    /\ \A i \in 1..Len(matrix) : Len(matrix[i]) = PolybiusMatrixSize(size)
    /\ \A i, k \in 1..Len(matrix) :
           \A j \in 1..Len(matrix[i]) : \A l \in 1..Len(matrix[k]) :
               matrix[i][j] = matrix[k][l] => (i = k /\ j = l)

\* C11: ADFGVXdecipher rejects the grid read from the CSV file before any
\* decoding (the key check, the column reordering, the label lookup) unless it
\* has exactly N rows of exactly N cells (N = 5 for 'small', otherwise 6) and
\* no symbol occurs in more than one cell.
C11_GridChecked ==
    (/\ script = "ADFGVXdecipher"
     /\ Happened("check_grid")
     /\ ~ GridWellFormed(polybius_matrix, args_size)) =>
        /\ pc = "exited"
        /\ exit_status = 1
        /\ ~ Happened("check_key")
        /\ ~ Happened("lookup")
        /\ decrypted_message = <<>>

\* the stream of labels: for each message character the label of its row and
\* then the label of its column
ExpectedStream == LabelStream(secret_message, polybius_matrix, args_size)

\* the 0-based key positions whose key character is smaller than that at j
SmallerKeyChars(j) ==
    { q \in 0..(Len(transposition_key) - 1) :
          CharOrd(transposition_key[q + 1]) < CharOrd(transposition_key[j + 1]) }

-----------------------------------------------------------------------------
(* Character codes *)

Digits == <<"0", "1", "2", "3", "4", "5", "6", "7", "8", "9">>

\* ord(c) of the characters the runs use
Ord(c) ==
    CASE Contains(LowerLetters, c) -> 97 + Index0(LowerLetters, c)
      [] Contains(UpperLetters, c) -> 65 + Index0(UpperLetters, c)
      [] Contains(Digits, c) -> 48 + Index0(Digits, c)
      [] Contains(HebrewLetters, c) -> 1488 + Index0(HebrewLetters, c)
      [] c = " " -> 32
      [] c = "E'" -> 201
      [] c = "e'" -> 233

\* chr(n); a negative n is a ValueError
ChrRaises(n) == n < 0
Chr(n) ==
    CASE n \in 97..122 -> LowerLetters[n - 96]
      [] n \in 65..90 -> UpperLetters[n - 64]
      [] n \in 48..57 -> Digits[n - 47]
      [] n \in 1488..1514 -> HebrewLetters[n - 1487]
      [] n = 32 -> " "
      [] n = 201 -> "E'"
      [] n = 233 -> "e'"

\* args.X.replace(" ", "").lower()
StripLower(s) == StrLower(StripSpaces(s))

\* a string of the letters a to z
LowerAZ(s) == \A k \in 1..Len(s) : Contains(LowerLetters, s[k])

-----------------------------------------------------------------------------
(* BeaufortCipher.py *)

alphabet_len == 26
ascii_offset == 97

\* a plausible slip: the Vigenere sum instead of the Beaufort difference
beaufort_encrypted_char_sum(message_char, key_char) ==
    LET message_char_val == Ord(message_char) - ascii_offset
        key_char_val == Ord(key_char) - ascii_offset
    IN  Chr(((key_char_val + message_char_val) % alphabet_len) + ascii_offset)

\* lines 43-47: one character of the loop
beaufort_encrypted_char(message_char, key_char) ==
    LET message_char_val == Ord(message_char) - ascii_offset
        key_char_val == Ord(key_char) - ascii_offset
    IN  Chr(((51 - key_char_val - message_char_val) % alphabet_len) + ascii_offset)

(* Inputs of the keyed scripts *)
KeyedChars == {"b", "N", "1", " "}
KeyedMessages == SeqsUpTo(KeyedChars, MaxTextLen)
SecretKeyChars == {"c", "Z", " "}
SecretKeys == SeqsUpTo(SecretKeyChars, MaxSecretKeyLen)

\* the parsed arguments of a script that takes a message and a key
KeyedStart(name) ==
    /\ script = name
    /\ pc = "start"
    /\ NoRun
    /\ args_message \in KeyedMessages
    /\ args_encrypted = <<>>
    /\ args_secret_key \in SecretKeys
    /\ secret_key = <<>> /\ key_ind = 0
    /\ full_key = <<>> /\ current_key = <<>>
    /\ LoopIdle
    /\ secret_message = <<>> /\ ciphertext = <<>>
    /\ encrypted_message = <<>> /\ decrypted_message = <<>>
    /\ ChaoIdle
    /\ LateIdle
    /\ BifidIdle
    /\ AdfgvxIdle
    /\ AtbashIdle
    /\ AffineIdle

InitBeaufort == KeyedStart("BeaufortCipher")

\* lines 32-40: the arguments are normalised
BeaufortSetup ==
    /\ UNCHANGED notKeyed
    /\ script = "BeaufortCipher" /\ pc = "start"
    /\ secret_message' = StripLower(args_message)
    /\ secret_key' = StripLower(args_secret_key)
    /\ encrypted_message' = <<>>
    /\ loop_i' = 0
    /\ pc' = "loop"
    /\ events' = Append(events, "setup")
    /\ UNCHANGED <<script, exit_status, error_message, argVars, args_secret_key,
                   key_ind, full_key, current_key, runs, ciphertext,
                   decrypted_message>>

\* lines 42-48: one iteration of `for i in range(message_len)`; i % key_len
\* fails when the key is empty
BeaufortStep ==
    /\ UNCHANGED notKeyed
    /\ script = "BeaufortCipher" /\ pc = "loop"
    /\ loop_i < Len(secret_message)
    /\ events' = Append(events, "lookup")
    /\ IF Len(secret_key) = 0
       THEN /\ Raise("ZeroDivisionError: integer division or modulo by zero")
            /\ UNCHANGED <<encrypted_message, loop_i>>
       ELSE /\ encrypted_message' =
                   Append(encrypted_message,
                          beaufort_encrypted_char(secret_message[loop_i + 1],
                              secret_key[(loop_i % Len(secret_key)) + 1]))
            /\ loop_i' = loop_i + 1
            /\ UNCHANGED <<pc, exit_status, error_message>>
    /\ UNCHANGED <<script, argVars, keyedVars, runs, secret_message, ciphertext,
                   decrypted_message>>

\* lines 50-52: the prints; the script ends
BeaufortPrint ==
    /\ UNCHANGED notKeyed
    /\ script = "BeaufortCipher" /\ pc = "loop"
    /\ loop_i = Len(secret_message)
    /\ pc' = "done"
    /\ exit_status' = 0
    /\ events' = Append(events, "output")
    /\ runs' = Append(runs, [message |-> secret_message, output |-> encrypted_message])
    /\ UNCHANGED <<script, error_message, argVars, keyedVars, loop_i, textVars>>

\* BeaufortCipher.py is run again on its printed output with the same key
BeaufortRunAgain ==
    /\ UNCHANGED notKeyed
    /\ script = "BeaufortCipher" /\ pc = "done"
    /\ Len(runs) = 1
    /\ args_message' = encrypted_message
    /\ pc' = "start"
    /\ exit_status' = -1
    /\ events' = <<>>
    /\ UNCHANGED <<script, error_message, args_encrypted, keyedVars, loopVars,
                   textVars>>

NextBeaufort == \/ BeaufortSetup
                \/ BeaufortStep
                \/ BeaufortPrint
                \/ BeaufortRunAgain

SpecBeaufort == InitBeaufort /\ [][NextBeaufort]_vars

(* Claims about BeaufortCipher.py *)

\* C15: for every lowercase message letter with value P and the cyclically
\* repeated key letter with value K (a = 0 .. z = 25), BeaufortCipher outputs the
\* letter whose value is (K - P) mod 26.
C15_BeaufortFormula ==
    (script = "BeaufortCipher" /\ pc \in {"loop", "done"}) =>
        \A k \in 1..Len(encrypted_message) :
            LET message_char == secret_message[k]
                key_char == secret_key[((k - 1) % Len(secret_key)) + 1]
            IN  (Contains(LowerLetters, message_char) /\ Contains(LowerLetters, key_char)) =>
                    Index0(LowerLetters, encrypted_message[k]) =
                        (Index0(LowerLetters, key_char)
                             - Index0(LowerLetters, message_char)) % 26

\* the first run read a lowercase a-z message under a non-empty lowercase key
BeaufortTwice ==
    /\ script = "BeaufortCipher"
    /\ secret_key # <<>> /\ LowerAZ(secret_key)
    /\ runs # <<>> /\ LowerAZ(runs[1].message)

\* C16: BeaufortCipher is involutory: for every non-empty lowercase key and
\* every lowercase a-z message, applying the script's transformation twice with
\* the same key returns the original message.
C16_BeaufortInvolutory ==
    /\ (script = "BeaufortCipher" /\ secret_key # <<>>) => pc # "raised"
    /\ (BeaufortTwice /\ Len(runs) = 2) => runs[2].output = runs[1].message
    /\ (BeaufortTwice /\ Len(runs) = 2) => runs[2].message = runs[1].output

C16_Witness ==
    /\ BeaufortTwice
    /\ Len(runs) = 2
    /\ Len(secret_key) = 2
    /\ secret_key[1] # secret_key[2]
    /\ runs[1].message = <<"b", "n", "b">>
    /\ runs[1].output # runs[1].message
    /\ runs[2].output = runs[1].message

-----------------------------------------------------------------------------
(* AtbashCipher.py *)

hebrew_start == 1488
hebrew_end == 1514

\* detect_hebrew: whether any character lies in hebrew_start .. hebrew_end
detect_hebrew(message) ==
    \E k \in 1..Len(message) :
        hebrew_start <= Ord(message[k]) /\ Ord(message[k]) <= hebrew_end

\* the code point handed to chr() for one character, or the character itself
AtbashCode(char, hebrew) ==
    IF hebrew
    THEN IF hebrew_start <= Ord(char) /\ Ord(char) <= hebrew_end
         THEN (hebrew_start + hebrew_end) - Ord(char)
         ELSE Ord(char)
    ELSE IF IsUpper(char) THEN Ord("A") + Ord("Z") - Ord(char)
         ELSE IF IsLower(char) THEN Ord("a") + Ord("z") - Ord(char)
         ELSE Ord(char)

\* a plausible slip: the lowercase branch reverses within the capitals
AtbashCodeCapitals(char, hebrew) ==
    IF hebrew
    THEN IF hebrew_start <= Ord(char) /\ Ord(char) <= hebrew_end
         THEN (hebrew_start + hebrew_end) - Ord(char)
         ELSE Ord(char)
    ELSE IF IsUpper(char) THEN Ord("A") + Ord("Z") - Ord(char)
         ELSE IF IsLower(char) THEN Ord("A") + Ord("Z") - Ord(ToUpper(char))
         ELSE Ord(char)

\* a plausible slip: the case of a lowercase letter is lost
atbash_cipher_capitals(message, hebrew) ==
    [k \in 1..Len(message) |-> Chr(AtbashCodeCapitals(message[k], hebrew))]

\* atbash_cipher: chr() of a negative number is a ValueError
atbash_cipher_raises(message, hebrew) ==
    \E k \in 1..Len(message) : ChrRaises(AtbashCode(message[k], hebrew))
atbash_cipher(message, hebrew) ==
    [k \in 1..Len(message) |-> Chr(AtbashCode(message[k], hebrew))]

(* Inputs of the Atbash runs *)
AtbashChars == {"b", "Y", "1", "alef", "shin", "E'"}
AtbashMessages == SeqsUpTo(AtbashChars, MaxTextLen)

InitAtbash ==
    /\ script = "AtbashCipher"
    /\ pc = "start"
    /\ NoRun
    /\ args_message \in AtbashMessages
    /\ args_encrypted = <<>>
    /\ AtbashIdle
    /\ LoopIdle
    /\ secret_message = <<>> /\ ciphertext = <<>>
    /\ encrypted_message = <<>> /\ decrypted_message = <<>>
    /\ ChaoIdle
    /\ LateIdle
    /\ BifidIdle
    /\ AdfgvxIdle
    /\ KeyedIdle
    /\ AffineIdle

\* lines 67-68: message = args.message; is_hebrew = detect_hebrew(message)
AtbashDetect ==
    /\ UNCHANGED notAtbash
    /\ script = "AtbashCipher" /\ pc = "start"
    /\ atbash_message' = args_message
    /\ is_hebrew' = detect_hebrew(args_message)
    /\ pc' = "cipher"
    /\ events' = Append(events, "setup")
    /\ UNCHANGED <<script, exit_status, error_message, argVars, loopVars, textVars>>

\* line 69: encrypted_message = atbash_cipher(message, is_hebrew)
AtbashEncrypt ==
    /\ UNCHANGED notAtbash
    /\ script = "AtbashCipher" /\ pc = "cipher"
    /\ events' = IF atbash_message = <<>> THEN events ELSE Append(events, "lookup")
    /\ IF atbash_cipher_raises(atbash_message, is_hebrew)
       THEN /\ Raise("ValueError: chr() arg not in range(0x110000)")
            /\ UNCHANGED encrypted_message
       ELSE /\ encrypted_message' = atbash_cipher(atbash_message, is_hebrew)
            /\ pc' = "print"
            /\ UNCHANGED <<exit_status, error_message>>
    /\ UNCHANGED <<script, argVars, atbashVars, loopVars, secret_message,
                   ciphertext, decrypted_message>>

\* lines 71-76: the prints; the script ends
AtbashPrint ==
    /\ UNCHANGED notAtbash
    /\ script = "AtbashCipher" /\ pc = "print"
    /\ pc' = "done"
    /\ exit_status' = 0
    /\ events' = Append(events, "output")
    /\ runs' = Append(runs, [message |-> atbash_message, output |-> encrypted_message])
    /\ UNCHANGED <<script, error_message, argVars, atbashVars, loop_i, textVars>>

\* AtbashCipher.py is run again on its printed output
AtbashRunAgain ==
    /\ UNCHANGED notAtbash
    /\ script = "AtbashCipher" /\ pc = "done"
    /\ Len(runs) = 1
    /\ args_message' = encrypted_message
    /\ pc' = "start"
    /\ exit_status' = -1
    /\ events' = <<>>
    /\ UNCHANGED <<script, error_message, args_encrypted, atbashVars, loopVars,
                   textVars>>

NextAtbash == \/ AtbashDetect
              \/ AtbashEncrypt
              \/ AtbashPrint
              \/ AtbashRunAgain

SpecAtbash == InitAtbash /\ [][NextAtbash]_vars

(* Claims about AtbashCipher.py *)

IsAsciiLetter(c) == Contains(LowerLetters, c) \/ Contains(UpperLetters, c)
IsHebrewLetter(c) == Contains(HebrewLetters, c)

\* made of ASCII letters, Hebrew letters U+05D0..U+05EA and non-letters
AtbashDomain(message) ==
    \A k \in 1..Len(message) :
        IsAsciiLetter(message[k]) \/ IsHebrewLetter(message[k]) \/ ~ IsAlpha(message[k])

\* the case of a letter is kept and a non-alphabetic character is unchanged
CaseAndOthersKept(message, output) ==
    /\ Len(output) = Len(message)
    /\ \A k \in 1..Len(message) :
           /\ IsUpper(message[k]) <=> IsUpper(output[k])
           /\ IsLower(message[k]) <=> IsLower(output[k])
           /\ ~ IsAlpha(message[k]) => output[k] = message[k]

\* C17: the Atbash script is involutory under its own alphabet detection: for
\* every message made of ASCII letters, Hebrew letters U+05D0..U+05EA and
\* non-letter characters, applying atbash_cipher with hebrew =
\* detect_hebrew(message) and then again to the output with detect_hebrew
\* re-evaluated returns the original message, with letter case and all
\* non-alphabetic characters unchanged.
C17_AtbashInvolutory ==
    script = "AtbashCipher" =>
        /\ AtbashDomain(args_message) => pc # "raised"
        /\ \A r \in 1..Len(runs) :
               AtbashDomain(runs[r].message) =>
                   /\ CaseAndOthersKept(runs[r].message, runs[r].output)
                   /\ AtbashDomain(runs[r].output)
                   /\ detect_hebrew(runs[r].output) = detect_hebrew(runs[r].message)
        /\ (Len(runs) = 2 /\ AtbashDomain(runs[1].message)) =>
               /\ runs[2].message = runs[1].output
               /\ runs[2].output = runs[1].message

C17_Witness ==
    /\ script = "AtbashCipher"
    /\ Len(runs) = 2
    /\ is_hebrew
    /\ runs[1].message = <<"b", "alef", "1">>
    /\ runs[1].output = <<"b", "tav", "1">>
    /\ runs[2].output = runs[1].message

-----------------------------------------------------------------------------
(* AlphabetCipher.py and AlphabetDecipher.py *)

\* AlphabetCipher.py line 32: one character of the loop
alphabet_encrypted_char(character, key_char) ==
    Chr((((Ord(character) - ascii_offset) + (Ord(key_char) - ascii_offset))
             % alphabet_len) + ascii_offset)

\* a plausible slip: the decoder adds the key value as the encoder does
alphabet_decrypted_char_sum(character, key_char) ==
    Chr((((Ord(character) - ascii_offset) + (Ord(key_char) - ascii_offset))
             % alphabet_len) + ascii_offset)

\* AlphabetDecipher.py line 32: one character of the loop
alphabet_decrypted_char(character, key_char) ==
    Chr((((Ord(character) - ascii_offset) - (Ord(key_char) - ascii_offset))
             % alphabet_len) + ascii_offset)

InitAlphabet == KeyedStart("AlphabetCipher")

\* AlphabetCipher.py lines 22-30: the arguments are normalised
AlphabetCipherSetup ==
    /\ UNCHANGED notKeyed
    /\ script = "AlphabetCipher" /\ pc = "start"
    /\ secret_message' = StripLower(args_message)
    /\ secret_key' = StripLower(args_secret_key)
    /\ encrypted_message' = <<>>
    /\ key_ind' = 0
    /\ loop_i' = 0
    /\ pc' = "loop"
    /\ events' = Append(events, "setup")
    /\ UNCHANGED <<script, exit_status, error_message, argVars, args_secret_key,
                   full_key, current_key, runs, ciphertext, decrypted_message>>

\* AlphabetCipher.py lines 31-33: one iteration of `for character in
\* secret_message`; secret_key[key_ind] fails when the key is empty
AlphabetCipherStep ==
    /\ UNCHANGED notKeyed
    /\ script = "AlphabetCipher" /\ pc = "loop"
    /\ loop_i < Len(secret_message)
    /\ events' = Append(events, "lookup")
    /\ IF key_ind >= Len(secret_key)
       THEN /\ Raise("IndexError: string index out of range")
            /\ UNCHANGED <<encrypted_message, key_ind, loop_i>>
       ELSE /\ encrypted_message' =
                   Append(encrypted_message,
                          alphabet_encrypted_char(secret_message[loop_i + 1],
                                                  secret_key[key_ind + 1]))
            /\ key_ind' = (key_ind + 1) % Len(secret_key)
            /\ loop_i' = loop_i + 1
            /\ UNCHANGED <<pc, exit_status, error_message>>
    /\ UNCHANGED <<script, argVars, args_secret_key, secret_key, full_key,
                   current_key, runs, secret_message, ciphertext,
                   decrypted_message>>

\* AlphabetCipher.py lines 35-37: the prints; the script ends
AlphabetCipherPrint ==
    /\ UNCHANGED notKeyed
    /\ script = "AlphabetCipher" /\ pc = "loop"
    /\ loop_i = Len(secret_message)
    /\ pc' = "done"
    /\ exit_status' = 0
    /\ events' = Append(events, "output")
    /\ runs' = Append(runs, [message |-> secret_message, output |-> encrypted_message])
    /\ UNCHANGED <<script, error_message, argVars, keyedVars, loop_i, textVars>>

\* AlphabetDecipher.py is run on the printed message with the same key
AlphabetRunDecipher ==
    /\ UNCHANGED notKeyed
    /\ script = "AlphabetCipher" /\ pc = "done"
    /\ script' = "AlphabetDecipher"
    /\ args_encrypted' = encrypted_message
    /\ pc' = "start"
    /\ exit_status' = -1
    /\ events' = <<>>
    /\ UNCHANGED <<error_message, args_message, keyedVars, loopVars, textVars>>

\* AlphabetDecipher.py lines 21-28: the arguments are normalised
AlphabetDecipherSetup ==
    /\ UNCHANGED notKeyed
    /\ script = "AlphabetDecipher" /\ pc = "start"
    /\ encrypted_message' = StripLower(args_encrypted)
    /\ secret_key' = StripLower(args_secret_key)
    /\ decrypted_message' = <<>>
    /\ key_ind' = 0
    /\ loop_i' = 0
    /\ pc' = "loop"
    /\ events' = Append(events, "setup")
    /\ UNCHANGED <<script, exit_status, error_message, argVars, args_secret_key,
                   full_key, current_key, runs, secret_message, ciphertext>>

\* AlphabetDecipher.py lines 29-33: one iteration of the decryption loop
AlphabetDecipherStep ==
    /\ UNCHANGED notKeyed
    /\ script = "AlphabetDecipher" /\ pc = "loop"
    /\ loop_i < Len(encrypted_message)
    /\ events' = Append(events, "lookup")
    /\ IF key_ind >= Len(secret_key)
       THEN /\ Raise("IndexError: string index out of range")
            /\ UNCHANGED <<decrypted_message, key_ind, loop_i>>
       ELSE /\ decrypted_message' =
                   Append(decrypted_message,
                          alphabet_decrypted_char(encrypted_message[loop_i + 1],
                                                  secret_key[key_ind + 1]))
            /\ key_ind' = (key_ind + 1) % Len(secret_key)
            /\ loop_i' = loop_i + 1
            /\ UNCHANGED <<pc, exit_status, error_message>>
    /\ UNCHANGED <<script, argVars, args_secret_key, secret_key, full_key,
                   current_key, runs, secret_message, ciphertext,
                   encrypted_message>>

\* AlphabetDecipher.py lines 35-37: the prints; the script ends
AlphabetDecipherPrint ==
    /\ UNCHANGED notKeyed
    /\ script = "AlphabetDecipher" /\ pc = "loop"
    /\ loop_i = Len(encrypted_message)
    /\ pc' = "done"
    /\ exit_status' = 0
    /\ events' = Append(events, "output")
    /\ runs' = Append(runs, [message |-> encrypted_message, output |-> decrypted_message])
    /\ UNCHANGED <<script, error_message, argVars, keyedVars, loop_i, textVars>>

NextAlphabet == \/ AlphabetCipherSetup
                \/ AlphabetCipherStep
                \/ AlphabetCipherPrint
                \/ AlphabetRunDecipher
                \/ AlphabetDecipherSetup
                \/ AlphabetDecipherStep
                \/ AlphabetDecipherPrint

SpecAlphabet == InitAlphabet /\ [][NextAlphabet]_vars

(* Claims about AlphabetCipher.py and AlphabetDecipher.py *)

\* AlphabetDecipher.py runs on the output of AlphabetCipher.py, which read a
\* lowercase a-z message under a non-empty lowercase key
AlphabetRoundTrip ==
    /\ script = "AlphabetDecipher"
    /\ StripLower(args_secret_key) # <<>> /\ LowerAZ(StripLower(args_secret_key))
    /\ LowerAZ(secret_message)

\* C18: for every non-empty lowercase key and every lowercase a-z message,
\* AlphabetDecipher ((c - k) mod 26 with the key index cycling 0..len(key)-1)
\* applied to the output of AlphabetCipher ((p + k) mod 26 with the same cycling
\* key index) returns the message.
C18_AlphabetRoundTrip ==
    /\ (script \in {"AlphabetCipher", "AlphabetDecipher"}
            /\ StripLower(args_secret_key) # <<>>) => pc # "raised"
    /\ (script \in {"AlphabetCipher", "AlphabetDecipher"}
            /\ pc = "loop" /\ secret_key # <<>>) =>
           key_ind = loop_i % Len(secret_key)
    /\ (AlphabetRoundTrip /\ pc = "loop") =>
           decrypted_message = Slice(secret_message, 0, loop_i)
    /\ (AlphabetRoundTrip /\ pc = "done") => decrypted_message = secret_message

C18_Witness ==
    /\ AlphabetRoundTrip
    /\ pc = "done"
    /\ Len(secret_key) = 2
    /\ secret_key[1] # secret_key[2]
    /\ secret_message = <<"b", "b", "n">>
    /\ encrypted_message[1] # encrypted_message[2]
    /\ decrypted_message = secret_message

-----------------------------------------------------------------------------
(* AutokeyCipher.py and AutokeyDecipher.py *)

\* AutokeyCipher.py lines 34-36: one character of the loop
autokey_encrypted_char(message_char, key_char) ==
    LET message_char_val == Ord(message_char) - ascii_offset
        key_char_val == Ord(key_char) - ascii_offset
    IN  Chr(((message_char_val + key_char_val) % alphabet_len) + ascii_offset)

\* AutokeyDecipher.py lines 33-38: one character of the loop
autokey_decrypted_char(cipher_char, key_char) ==
    LET cipher_char_val == Ord(cipher_char) - ascii_offset
        key_char_val == Ord(key_char) - ascii_offset
        decrypted_char_val == (cipher_char_val - key_char_val) % alphabet_len
    IN  Chr(decrypted_char_val + ascii_offset)

InitAutokey == KeyedStart("AutokeyCipher")

\* AutokeyCipher.py lines 22-31: the arguments are normalised and the full key
\* is built
AutokeyCipherSetup ==
    /\ UNCHANGED notKeyed
    /\ script = "AutokeyCipher" /\ pc = "start"
    /\ secret_message' = StripLower(args_message)
    /\ secret_key' = StripLower(args_secret_key)
    /\ encrypted_message' = <<>>
    /\ full_key' = StripLower(args_secret_key) \o StripLower(args_message)
    /\ loop_i' = 0
    /\ pc' = "loop"
    /\ events' = Append(events, "setup")
    /\ UNCHANGED <<script, exit_status, error_message, argVars, args_secret_key,
                   key_ind, current_key, runs, ciphertext, decrypted_message>>

\* AutokeyCipher.py lines 33-37: one iteration of `for i in range(message_len)`
AutokeyCipherStep ==
    /\ UNCHANGED notKeyed
    /\ script = "AutokeyCipher" /\ pc = "loop"
    /\ loop_i < Len(secret_message)
    /\ events' = Append(events, "lookup")
    /\ encrypted_message' =
           Append(encrypted_message,
                  autokey_encrypted_char(secret_message[loop_i + 1],
                                         full_key[loop_i + 1]))
    /\ loop_i' = loop_i + 1
    /\ UNCHANGED <<script, pc, exit_status, error_message, argVars, keyedVars,
                   runs, secret_message, ciphertext, decrypted_message>>

\* AutokeyCipher.py lines 39-41: the prints; the script ends
AutokeyCipherPrint ==
    /\ UNCHANGED notKeyed
    /\ script = "AutokeyCipher" /\ pc = "loop"
    /\ loop_i = Len(secret_message)
    /\ pc' = "done"
    /\ exit_status' = 0
    /\ events' = Append(events, "output")
    /\ runs' = Append(runs, [message |-> secret_message, output |-> encrypted_message])
    /\ UNCHANGED <<script, error_message, argVars, keyedVars, loop_i, textVars>>

\* AutokeyDecipher.py is run on the printed message with the same initial key
AutokeyRunDecipher ==
    /\ UNCHANGED notKeyed
    /\ script = "AutokeyCipher" /\ pc = "done"
    /\ script' = "AutokeyDecipher"
    /\ args_encrypted' = encrypted_message
    /\ pc' = "start"
    /\ exit_status' = -1
    /\ events' = <<>>
    /\ UNCHANGED <<error_message, args_message, keyedVars, loopVars, textVars>>

\* AutokeyDecipher.py lines 22-30: the arguments are normalised; the running
\* key starts as the initial key
AutokeyDecipherSetup ==
    /\ UNCHANGED notKeyed
    /\ script = "AutokeyDecipher" /\ pc = "start"
    /\ encrypted_message' = StripLower(args_encrypted)
    /\ secret_key' = StripLower(args_secret_key)
    /\ decrypted_message' = <<>>
    /\ current_key' = StripLower(args_secret_key)
    /\ loop_i' = 0
    /\ pc' = "loop"
    /\ events' = Append(events, "setup")
    /\ UNCHANGED <<script, exit_status, error_message, argVars, args_secret_key,
                   key_ind, full_key, runs, secret_message, ciphertext>>

\* AutokeyDecipher.py lines 32-42: one iteration of the decryption loop;
\* current_key[i] fails when the running key is too short
AutokeyDecipherStep ==
    /\ UNCHANGED notKeyed
    /\ script = "AutokeyDecipher" /\ pc = "loop"
    /\ loop_i < Len(encrypted_message)
    /\ events' = Append(events, "lookup")
    /\ IF loop_i >= Len(current_key)
       THEN /\ Raise("IndexError: string index out of range")
            /\ UNCHANGED <<decrypted_message, current_key, loop_i>>
       ELSE /\ decrypted_message' =
                   Append(decrypted_message,
                          autokey_decrypted_char(encrypted_message[loop_i + 1],
                                                 current_key[loop_i + 1]))
            /\ current_key' =
                   Append(current_key,
                          autokey_decrypted_char(encrypted_message[loop_i + 1],
                                                 current_key[loop_i + 1]))
            /\ loop_i' = loop_i + 1
            /\ UNCHANGED <<pc, exit_status, error_message>>
    /\ UNCHANGED <<script, argVars, args_secret_key, secret_key, key_ind,
                   full_key, runs, secret_message, ciphertext, encrypted_message>>

\* AutokeyDecipher.py lines 44-46: the prints; the script ends
AutokeyDecipherPrint ==
    /\ UNCHANGED notKeyed
    /\ script = "AutokeyDecipher" /\ pc = "loop"
    /\ loop_i = Len(encrypted_message)
    /\ pc' = "done"
    /\ exit_status' = 0
    /\ events' = Append(events, "output")
    /\ runs' = Append(runs, [message |-> encrypted_message, output |-> decrypted_message])
    /\ UNCHANGED <<script, error_message, argVars, keyedVars, loop_i, textVars>>

NextAutokey == \/ AutokeyCipherSetup
               \/ AutokeyCipherStep
               \/ AutokeyCipherPrint
               \/ AutokeyRunDecipher
               \/ AutokeyDecipherSetup
               \/ AutokeyDecipherStep
               \/ AutokeyDecipherPrint

SpecAutokey == InitAutokey /\ [][NextAutokey]_vars

(* Claims about AutokeyCipher.py and AutokeyDecipher.py *)

\* AutokeyDecipher.py runs on the output of AutokeyCipher.py, which read a
\* lowercase a-z message
AutokeyRoundTrip == script = "AutokeyDecipher" /\ LowerAZ(secret_message)

\* C19: for every initial key and every lowercase a-z message, AutokeyDecipher,
\* which appends each decrypted character to its running key, recovers the
\* message encrypted by AutokeyCipher: at every step i the decoder's key
\* character at position i exists and equals the encoder's full_key[i] (initial
\* key followed by the plaintext).
C19_AutokeyRoundTrip ==
    AutokeyRoundTrip =>
        /\ pc # "raised"
        /\ (pc = "loop" /\ loop_i < Len(encrypted_message)) =>
               /\ loop_i < Len(current_key)
               /\ current_key[loop_i + 1] = full_key[loop_i + 1]
        /\ pc = "done" => decrypted_message = secret_message

-----------------------------------------------------------------------------
(* AffineCipher.py and AffineDecipher.py *)

affine_m == 26

Abs(n) == IF n < 0 THEN -n ELSE n

\* math.gcd
RECURSIVE Gcd(_, _)
Gcd(x, y) == IF y = 0 THEN Abs(x) ELSE Gcd(y, x % Abs(y))

coprime(x, y) == Gcd(x, y) = 1

\* the loop of mod_inverse: while a > 1
RECURSIVE ModInverseLoop(_, _, _, _)
ModInverseLoop(a_cur, r, x0, x1) ==
    IF a_cur > 1
    THEN LET q == a_cur \div r
         IN  ModInverseLoop(r, a_cur % r, x1, x0 - q * x1)
    ELSE x0

\* mod_inverse, called with coprime arguments only (line 52 exits otherwise)
mod_inverse(a_arg, m_arg) ==
    LET x0 == ModInverseLoop(a_arg, m_arg, 1, 0)
    IN  IF x0 < 0 THEN x0 + m_arg ELSE x0

\* AffineCipher.py lines 48-49: one character of the loop
affine_encrypted_char(char, a_arg, b_arg) ==
    LET x == Ord(char) - ascii_offset
    IN  Chr(((a_arg * x + b_arg) % affine_m) + ascii_offset)

\* a plausible slip: the parentheses around y - b are forgotten
affine_decrypted_char_unparenthesised(char, inverse, b_arg) ==
    LET y == Ord(char) - ascii_offset
        x == (inverse * y - b_arg) % affine_m
    IN  Chr(x + ascii_offset)

\* AffineDecipher.py lines 60-62: one character of the loop
affine_decrypted_char(char, inverse, b_arg) ==
    LET y == Ord(char) - ascii_offset
        x == (inverse * (y - b_arg)) % affine_m
    IN  Chr(x + ascii_offset)

(* Inputs of the Affine runs *)
AffineChars == {"b", "z", "N"}
AffineMessages == SeqsUpTo(AffineChars, MaxTextLen)
\* -a: absent, coprime to 26 (up to and beyond 26), not coprime, negative
AValues == {1, 3, 25, 27, 13, -3}
BValues == {0, 5, 30, -27}
\* values random.randrange(10000, 1000000) can return
RandomAs == {10001, 999997}
RandomBs == {10000, 999999}

InitAffine ==
    /\ script = "AffineCipher"
    /\ pc = "start"
    /\ NoRun
    /\ args_message \in AffineMessages
    /\ args_encrypted = <<>>
    /\ args_a \in {<<>>} \cup { <<n>> : n \in AValues }
    /\ args_b \in {<<>>} \cup { <<n>> : n \in BValues }
    /\ affine_a = 0 /\ affine_b = 0 /\ a_inv = 0
    /\ LoopIdle
    /\ secret_message = <<>> /\ ciphertext = <<>>
    /\ encrypted_message = <<>> /\ decrypted_message = <<>>
    /\ ChaoIdle
    /\ LateIdle
    /\ BifidIdle
    /\ AdfgvxIdle
    /\ KeyedIdle
    /\ AtbashIdle

\* AffineCipher.py lines 27-45: a and b are taken from the arguments or drawn
\* at random (a until it is coprime to m)
AffineCipherSetup ==
    /\ UNCHANGED notAffine
    /\ script = "AffineCipher" /\ pc = "start"
    /\ secret_message' = args_message
    /\ encrypted_message' = <<>>
    /\ IF args_a # <<>>
       THEN affine_a' = args_a[1]
       ELSE affine_a' \in { n \in RandomAs : coprime(n, affine_m) }
    /\ IF args_b # <<>>
       THEN affine_b' = args_b[1]
       ELSE affine_b' \in RandomBs
    /\ loop_i' = 0
    /\ pc' = "loop"
    /\ events' = Append(events, "setup")
    /\ UNCHANGED <<script, exit_status, error_message, argVars, args_a, args_b,
                   a_inv, runs, ciphertext, decrypted_message>>

\* AffineCipher.py lines 47-49: one iteration of `for char in secret_message`
AffineCipherStep ==
    /\ UNCHANGED notAffine
    /\ script = "AffineCipher" /\ pc = "loop"
    /\ loop_i < Len(secret_message)
    /\ events' = Append(events, "lookup")
    /\ encrypted_message' =
           Append(encrypted_message,
                  affine_encrypted_char(secret_message[loop_i + 1], affine_a, affine_b))
    /\ loop_i' = loop_i + 1
    /\ UNCHANGED <<script, pc, exit_status, error_message, argVars, affineVars,
                   runs, secret_message, ciphertext, decrypted_message>>

\* AffineCipher.py lines 51-55: the prints; the script ends
AffineCipherPrint ==
    /\ UNCHANGED notAffine
    /\ script = "AffineCipher" /\ pc = "loop"
    /\ loop_i = Len(secret_message)
    /\ pc' = "done"
    /\ exit_status' = 0
    /\ events' = Append(events, "output")
    /\ runs' = Append(runs, [message |-> secret_message, output |-> encrypted_message])
    /\ UNCHANGED <<script, error_message, argVars, affineVars, loop_i, textVars>>

\* AffineDecipher.py is run on the printed message with the printed a and b
AffineRunDecipher ==
    /\ UNCHANGED notAffine
    /\ script = "AffineCipher" /\ pc = "done"
    /\ script' = "AffineDecipher"
    /\ args_encrypted' = encrypted_message
    /\ args_a' = <<affine_a>>
    /\ args_b' = <<affine_b>>
    /\ pc' = "start"
    /\ exit_status' = -1
    /\ events' = <<>>
    /\ UNCHANGED <<error_message, args_message, affine_a, affine_b, a_inv,
                   loopVars, textVars>>

\* AffineDecipher.py lines 43-57: a must be coprime to m, else exit(1); the
\* inverse of a is computed
AffineDecipherSetup ==
    /\ UNCHANGED notAffine
    /\ script = "AffineDecipher" /\ pc = "start"
    /\ encrypted_message' = args_encrypted
    /\ decrypted_message' = <<>>
    /\ affine_a' = args_a[1]
    /\ affine_b' = args_b[1]
    /\ loop_i' = 0
    /\ events' = Append(events, "check_a")
    /\ IF ~ coprime(args_a[1], affine_m)
       THEN /\ ExitWithError("Error: a is not coprime to m. Decryption is not possible.")
            /\ UNCHANGED a_inv
       ELSE /\ a_inv' = mod_inverse(args_a[1], affine_m)
            /\ pc' = "loop"
            /\ UNCHANGED <<exit_status, error_message>>
    /\ UNCHANGED <<script, argVars, args_a, args_b, runs, secret_message,
                   ciphertext>>

\* AffineDecipher.py lines 59-62: one iteration of the decryption loop
AffineDecipherStep ==
    /\ UNCHANGED notAffine
    /\ script = "AffineDecipher" /\ pc = "loop"
    /\ loop_i < Len(encrypted_message)
    /\ events' = Append(events, "lookup")
    /\ decrypted_message' =
           Append(decrypted_message,
                  affine_decrypted_char(encrypted_message[loop_i + 1], a_inv, affine_b))
    /\ loop_i' = loop_i + 1
    /\ UNCHANGED <<script, pc, exit_status, error_message, argVars, affineVars,
                   runs, secret_message, ciphertext, encrypted_message>>

\* AffineDecipher.py lines 64-69: the prints; the script ends
AffineDecipherPrint ==
    /\ UNCHANGED notAffine
    /\ script = "AffineDecipher" /\ pc = "loop"
    /\ loop_i = Len(encrypted_message)
    /\ pc' = "done"
    /\ exit_status' = 0
    /\ events' = Append(events, "output")
    /\ runs' = Append(runs, [message |-> encrypted_message, output |-> decrypted_message])
    /\ UNCHANGED <<script, error_message, argVars, affineVars, loop_i, textVars>>

NextAffine == \/ AffineCipherSetup
              \/ AffineCipherStep
              \/ AffineCipherPrint
              \/ AffineRunDecipher
              \/ AffineDecipherSetup
              \/ AffineDecipherStep
              \/ AffineDecipherPrint

SpecAffine == InitAffine /\ [][NextAffine]_vars

(* Claims about AffineCipher.py and AffineDecipher.py *)

\* AffineDecipher.py runs on the output of AffineCipher.py, which read a
\* lowercase a-z message under an a >= 1 coprime to 26
AffineRoundTrip ==
    /\ script = "AffineDecipher"
    /\ args_a[1] >= 1 /\ coprime(args_a[1], 26)
    /\ LowerAZ(secret_message)

\* C20: for every a >= 1 coprime to 26, every integer b and every lowercase a-z
\* message, AffineDecipher (x = a^(-1) * (y - b) mod 26) recovers the message
\* produced by AffineCipher ((a*x + b) mod 26).
C20_AffineRoundTrip ==
    AffineRoundTrip =>
        /\ pc \notin {"raised", "exited"}
        /\ pc \in {"loop", "done"} => (affine_a * a_inv) % 26 = 1
        /\ pc = "loop" => decrypted_message = Slice(secret_message, 0, loop_i)
        /\ pc = "done" => decrypted_message = secret_message

C20_Witness ==
    /\ AffineRoundTrip
    /\ pc = "done"
    /\ affine_a = 27
    /\ affine_b = -27
    /\ secret_message = <<"b", "z", "b">>
    /\ encrypted_message # secret_message
    /\ decrypted_message = secret_message

\* C27: for every integer a with gcd(a, 26) = 1 (every value of a that
\* AffineDecipher accepts), mod_inverse(a, 26) terminates and returns x with
\* 0 <= x < 26 and (a * x) mod 26 = 1.
C27_ModInverse ==
    (script = "AffineDecipher" /\ pc \in {"loop", "done"}) =>
        /\ coprime(affine_a, affine_m)
        /\ a_inv = mod_inverse(affine_a, affine_m)
        /\ a_inv \in 0..(affine_m - 1)
        /\ (affine_a * a_inv) % affine_m = 1

-----------------------------------------------------------------------------
(* AryabhataCipher.py and AryabhataDecipher.py *)

\* The Devanagari characters are modelled by their names.  The numbers of the
\* model stay below 2^31, so the vowel powers from 10^10 upwards never fit into
\* `remaining` and the check `number > 10**18` of line 102 is never true.
MaxNumber == 130
MaxExponent == 4

\* VARGA_CONSONANTS: value n is the n-th entry
VARGA_CONSONANTS == <<"ka", "kha", "ga", "gha", "nga", "ca", "cha", "ja", "jha",
                      "nya", "tta", "ttha", "dda", "ddha", "nna", "ta", "tha",
                      "da", "dha", "na", "pa", "pha", "ba", "bha", "ma">>
\* AVARGA_CONSONANTS: value 10 * (n + 2) is the n-th entry
AVARGA_CONSONANTS == <<"ya", "ra", "la", "va", "sha", "ssa", "sa", "ha">>
\* VOWELS without the inherent a: the mark of 100^n is the n-th entry
VOWEL_SIGNS == <<"sign i", "sign u", "sign vocalic r", "sign vocalic l",
                 "sign e", "sign ai", "sign o", "sign au">>
DEVANAGARI_ZERO == "zero"

RECURSIVE Pow100(_)
Pow100(e) == IF e = 0 THEN 1 ELSE 100 * Pow100(e - 1)

\* add_syllable: the mark of 100 is put in front of the consonant, every other
\* mark behind it (normalize("NFKD", ...) changes none of these strings: no
\* character of the tables decomposes and all marks have combining class 0)
Syllable(consonant, e) ==
    IF e = 0 THEN <<consonant>>
    ELSE IF e = 1 THEN <<VOWEL_SIGNS[e], consonant>>
    ELSE <<consonant, VOWEL_SIGNS[e]>>

\* coefficient = remaining // vowel_power
Coefficient(rem, e) == IF e > MaxExponent THEN 0 ELSE rem \div Pow100(e)

\* lines 141-148: the largest avarga value that fits, as a syllable
AvargaFor(coeff) == LET v == Min(100, 10 * (coeff \div 10))
                    IN  [value |-> v, consonant |-> AVARGA_CONSONANTS[(v \div 10) - 2]]

\* lines 151-156: the largest varga value that fits into coeff_remaining
VargaSyllables(coeff_remaining, e) ==
    IF coeff_remaining >= 1
    THEN <<Syllable(VARGA_CONSONANTS[Min(coeff_remaining, 25)], e)>>
    ELSE <<>>

\* lines 127-156: the syllables one coefficient adds to the list
SyllablesOf(coefficient, e) ==
    IF coefficient < 26 THEN VargaSyllables(coefficient, e)
    ELSE IF coefficient < 30
         THEN <<Syllable(VARGA_CONSONANTS[20], e)>> \o VargaSyllables(coefficient - 20, e)
         ELSE <<Syllable(AvargaFor(coefficient).consonant, e)>>
                  \o VargaSyllables(coefficient - AvargaFor(coefficient).value, e)

\* ''.join(reversed(syllables))
RECURSIVE JoinReversed(_)
JoinReversed(list) ==
    IF list = <<>> THEN <<>> ELSE JoinReversed(Tail(list)) \o Head(list)

\* CONSONANTS[char]
IsConsonant(c) == Contains(VARGA_CONSONANTS, c) \/ Contains(AVARGA_CONSONANTS, c)
ConsonantValue(c) ==
    IF Contains(VARGA_CONSONANTS, c) THEN Index0(VARGA_CONSONANTS, c) + 1
    ELSE 10 * (Index0(AVARGA_CONSONANTS, c) + 3)

\* category in VOWEL_MARK_CATEGORIES and next_char in VOWEL_MARKS
IsVowelMark(c) == Contains(VOWEL_SIGNS, c)

\* lines 95-104: the vowel marks that follow position i
RECURSIVE MarksFrom(_, _)
MarksFrom(text, i) ==
    IF i < Len(text) /\ IsVowelMark(text[i + 1])
    THEN <<text[i + 1]>> \o MarksFrom(text, i + 1)
    ELSE <<>>

\* parse_syllables: the loop from position i on
RECURSIVE ParseFrom(_, _, _)
ParseFrom(text, i, parsed) ==
    IF i >= Len(text) THEN parsed
    ELSE IF text[i + 1] = DEVANAGARI_ZERO THEN << <<DEVANAGARI_ZERO, <<>>>> >>
    ELSE IF IsConsonant(text[i + 1])
         THEN LET marks == MarksFrom(text, i + 1)
              IN  ParseFrom(text, i + 1 + Len(marks),
                            Append(parsed, <<text[i + 1], marks>>))
         ELSE ParseFrom(text, i + 1, parsed)

parse_syllables(text) == ParseFrom(text, 0, <<>>)

\* VOWEL_MARKS.get(vowel_mark, 1)
VowelMultiplier(vowel_mark) ==
    IF Len(vowel_mark) = 1 /\ IsVowelMark(vowel_mark[1])
    THEN Pow100(Index0(VOWEL_SIGNS, vowel_mark[1]) + 1)
    ELSE 1

\* lines 142-157: the sum of the syllable values
RECURSIVE SyllableTotal(_)
SyllableTotal(parsed) ==
    IF parsed = <<>> THEN 0
    ELSE (IF Head(parsed)[1] = DEVANAGARI_ZERO THEN 0
          ELSE ConsonantValue(Head(parsed)[1]) * VowelMultiplier(Head(parsed)[2]))
         + SyllableTotal(Tail(parsed))

(* Inputs of the Aryabhata runs *)
LargeNumbers == {600, 2600, 2920, 10600, 260003, 12345678, 1999999999}
Numbers == (-1)..MaxNumber \cup LargeNumbers

InitAryabhata ==
    /\ script = "AryabhataCipher"
    /\ pc = "start"
    /\ NoRun
    /\ args_number \in Numbers
    /\ remaining = 0 /\ syllables = <<>> /\ vowel_index = 0
    /\ aryabhata = <<>> /\ number = 0
    /\ ArgsIdle
    /\ secret_message = <<>> /\ ciphertext = <<>>
    /\ encrypted_message = <<>> /\ decrypted_message = <<>>
    /\ ChaoIdle /\ BifidIdle /\ AdfgvxIdle /\ SimpleIdle
    /\ AlbertiIdle /\ BaconIdle

\* number_to_aryabhata lines 96-115: zero, a negative number (the ValueError
\* is caught by main, which returns 1), or the start of the decomposition
AryabhataEncodeStart ==
    /\ UNCHANGED notArya
    /\ script = "AryabhataCipher" /\ pc = "start"
    /\ events' = Append(events, "encode")
    /\ IF args_number = 0
       THEN /\ aryabhata' = <<DEVANAGARI_ZERO>>
            /\ pc' = "done"
            /\ exit_status' = 0
            /\ UNCHANGED <<error_message, remaining>>
       ELSE IF args_number < 0
       THEN /\ ExitWithError("Error: Negative numbers are not supported in Aryabhata numerals")
            /\ UNCHANGED <<aryabhata, remaining>>
       ELSE /\ remaining' = args_number
            /\ pc' = "loop"
            /\ UNCHANGED <<aryabhata, exit_status, error_message>>
    /\ UNCHANGED <<script, args_number, syllables, vowel_index, number,
                   argVars, textVars>>

\* one iteration of `for vowel_power in vowel_powers`, largest power first
AryabhataEncodeStep ==
    /\ UNCHANGED notArya
    /\ script = "AryabhataCipher" /\ pc = "loop"
    /\ vowel_index < Len(VOWEL_SIGNS) + 1
    /\ remaining # 0
    /\ LET e == Len(VOWEL_SIGNS) - vowel_index
           coefficient == Coefficient(remaining, e)
       IN  IF coefficient = 0
           THEN UNCHANGED <<syllables, remaining>>
           ELSE /\ syllables' = syllables \o SyllablesOf(coefficient, e)
                /\ remaining' = remaining - coefficient * Pow100(e)
    /\ vowel_index' = vowel_index + 1
    /\ UNCHANGED <<controlVars, args_number, aryabhata, number, argVars, textVars>>

\* the loop ends (break on remaining == 0 or no power left); line 162 joins the
\* reversed syllables, main prints them and returns 0
AryabhataEncodeReturn ==
    /\ UNCHANGED notArya
    /\ script = "AryabhataCipher" /\ pc = "loop"
    /\ vowel_index = Len(VOWEL_SIGNS) + 1 \/ remaining = 0
    /\ aryabhata' = JoinReversed(syllables)
    /\ events' = Append(events, "output")
    /\ pc' = "done"
    /\ exit_status' = 0
    /\ UNCHANGED <<script, error_message, args_number, remaining, syllables,
                   vowel_index, number, argVars, textVars>>

\* AryabhataDecipher.py is run on the printed numeral
AryabhataRunDecipher ==
    /\ UNCHANGED notArya
    /\ script = "AryabhataCipher" /\ pc = "done"
    /\ script' = "AryabhataDecipher"
    /\ pc' = "start"
    /\ exit_status' = -1
    /\ events' = <<>>
    /\ syllables' = <<>>
    /\ UNCHANGED <<error_message, args_number, remaining, vowel_index, aryabhata,
                   number, argVars, textVars>>

\* aryabhata_to_number lines 124-139: the early returns, else the parsed text
AryabhataParse ==
    /\ UNCHANGED notArya
    /\ script = "AryabhataDecipher" /\ pc = "start"
    /\ events' = Append(events, "parse")
    /\ IF aryabhata = <<>> \/ aryabhata = <<DEVANAGARI_ZERO>>
       THEN /\ number' = 0
            /\ pc' = "done"
            /\ exit_status' = 0
            /\ UNCHANGED syllables
       ELSE /\ syllables' = parse_syllables(aryabhata)
            /\ IF parse_syllables(aryabhata) \in {<<>>, << <<DEVANAGARI_ZERO, <<>>>> >>}
               THEN /\ number' = 0
                    /\ pc' = "done"
                    /\ exit_status' = 0
               ELSE /\ pc' = "sum"
                    /\ UNCHANGED <<number, exit_status>>
    /\ UNCHANGED <<script, error_message, args_number, remaining, vowel_index,
                   aryabhata, argVars, textVars>>

\* lines 141-159: the total of the syllables; main prints it and returns 0
AryabhataSum ==
    /\ UNCHANGED notArya
    /\ script = "AryabhataDecipher" /\ pc = "sum"
    /\ number' = SyllableTotal(syllables)
    /\ events' = Append(events, "output")
    /\ pc' = "done"
    /\ exit_status' = 0
    /\ UNCHANGED <<script, error_message, args_number, remaining, syllables,
                   vowel_index, aryabhata, argVars, textVars>>

NextAryabhata == \/ AryabhataEncodeStart
                 \/ AryabhataEncodeStep
                 \/ AryabhataEncodeReturn
                 \/ AryabhataRunDecipher
                 \/ AryabhataParse
                 \/ AryabhataSum

SpecAryabhata == InitAryabhata /\ [][NextAryabhata]_vars

-----------------------------------------------------------------------------
(* Claims about AryabhataCipher.py and AryabhataDecipher.py *)

\* C21: for every integer n with 0 <= n <= 10^18,
\* aryabhata_to_number(number_to_aryabhata(n)) = n: the decoder, parsing the
\* encoder's syllable string into consonant-plus-vowel-mark syllables and adding
\* their values, recovers the encoded number.
C21_AryabhataRoundTrip ==
    (script = "AryabhataDecipher" /\ pc = "done") => number = args_number

-----------------------------------------------------------------------------
(* AlbertiCipher.py (src/Ciphers/Alberti and src/CipherScripts) and *)
(* AlbertiDecipher.py *)

\* the two copies of the encoder
AlbertiEncoders == {"Alberti/AlbertiCipher", "CipherScripts/AlbertiCipher"}

OriginalStationary == <<"A","B","C","D","E","F","G","I","L","M","N","O",
                        "P","Q","R","S","T","V","X","Z","1","2","3","4">>
OriginalMovable == <<"k","l","n","p","r","t","u","z","&","x","y","s",
                     "o","m","q","i","h","f","d","b","a","c","e","g">>
stationary_disk_len == 24
movable_disk_len == 24

\* s[i] for a Python index i: IndexError outside -len .. len - 1
Readable(s, i) == i \in (0 - Len(s))..(Len(s) - 1)
PyAt(s, i) == IF i >= 0 THEN s[i + 1] ELSE s[Len(s) + i + 1]

\* str.isdigit
IsDigit(c) == Contains(Digits, c)

\* movable_disk[kinitial:] + movable_disk[:kinitial], kinitial the index of 'k'
KFirst(disk) == SliceFrom(disk, Index0(disk, "k")) \o Slice(disk, 0, Index0(disk, "k"))

\* the workaround of lines 78-91: the letter looked up and how often it is written
Substitute(char) ==
    IF char = "h" THEN <<"f", 2>>
    ELSE IF char = "j" THEN <<"i", 2>>
    ELSE IF char = "k" THEN <<"q", 2>>
    ELSE IF char = "u" THEN <<"v", 2>>
    ELSE IF char = "w" THEN <<"x", 2>>
    ELSE IF char = "y" THEN <<"z", 2>>
    ELSE <<char, 1>>

\* get_encrypted_letter: .index raises ValueError for a character that is not
\* on the stationary disk
get_encrypted_letter(char, stationary, movable, offset) ==
    IF ~ Contains(stationary, ToUpper(char))
    THEN [raised |-> TRUE, index |-> -1, letter |-> ""]
    ELSE LET found == Index0(stationary, ToUpper(char)) - offset
             encrypt_char_index == IF found < 0 THEN found + movable_disk_len ELSE found
         IN  [raised |-> ~ Readable(movable, encrypt_char_index),
              index |-> encrypt_char_index,
              letter |-> IF Readable(movable, encrypt_char_index)
                         THEN PyAt(movable, encrypt_char_index) ELSE ""]

\* the rotation of lines 63-75 for one outcome of the random draw: the digit
\* next_num in method two, the new k_offset in the default method
Rotation(name, draw, stationary, movable, two, offset) ==
    IF two
    THEN LET found == Index0(stationary, draw)
             shifted == IF name = "Alberti/AlbertiCipher" THEN found - offset ELSE found
             new_key == IF name = "Alberti/AlbertiCipher" /\ shifted < 0
                        THEN shifted + movable_disk_len ELSE shifted
         IN  [k_offset |-> movable_disk_len - new_key,
              index |-> new_key,
              written |-> PyAt(movable, new_key)]
    ELSE [k_offset |-> draw, index |-> draw, written |-> PyAt(stationary, draw)]

(* Inputs of the Alberti runs *)
MaxAlbertiLen == 2
AlbertiChars == {"a", "f", "h", " "}
AlbertiMessages == SeqsUpTo(AlbertiChars, MaxAlbertiLen)
                       \cup { <<"o", "f", "f">>, <<"F", "a", "z">>, <<"5">> }
Frequencies == {0, 1, 2, 10}
\* the arrangements random.sample can produce: the original order and a shuffle
ShuffledDisk(disk) == [i \in 1..Len(disk) |-> disk[((5 * (i - 1) + 3) % Len(disk)) + 1]]
StationaryArrangements == { OriginalStationary, ShuffledDisk(OriginalStationary) }
MovableArrangements == { OriginalMovable, ShuffledDisk(OriginalMovable) }
\* the outcomes of random.randrange(lo, hi) the model draws
DrawnOffsets == {0, 1, 19, 20, 23, 24}
RandRange(lo, hi) == { n \in DrawnOffsets : lo <= n /\ n < hi }

InitAlberti ==
    /\ script \in AlbertiEncoders
    /\ pc = "start"
    /\ NoRun
    /\ args_message \in AlbertiMessages
    /\ args_encrypted = <<>>
    /\ frequency_rotate \in Frequencies
    /\ method_two \in BOOLEAN
    /\ stationary_disk = <<>> /\ movable_disk = <<>>
    /\ k_offset = 0 /\ iters_until_rotate = 0
    /\ message_index = 0 /\ disk_reads = <<>>
    /\ secret_message = <<>> /\ ciphertext = <<>>
    /\ encrypted_message = <<>> /\ decrypted_message = <<>>
    /\ ChaoIdle /\ BifidIdle /\ AdfgvxIdle /\ SimpleIdle
    /\ AryaIdle /\ BaconIdle

\* lines 3-13 and 48-60 (CipherScripts copy: 3-6 and 41-53): the disks, the
\* normalised message, and in method two the first random offset and its
\* indicator movable_disk[movable_disk_len - k_offset]
AlbertiSetup ==
    /\ UNCHANGED notAlberti
    /\ script \in AlbertiEncoders /\ pc = "start"
    /\ secret_message' = StrLower(StripSpaces(args_message))
    /\ IF script = "Alberti/AlbertiCipher"
       THEN /\ stationary_disk' \in StationaryArrangements
            /\ movable_disk' \in { KFirst(d) : d \in MovableArrangements }
       ELSE /\ stationary_disk' = OriginalStationary
            /\ movable_disk' = OriginalMovable
    /\ events' = Append(events, "setup")
    /\ IF method_two
       THEN \E draw \in IF script = "Alberti/AlbertiCipher"
                        THEN RandRange(1, stationary_disk_len + 1)
                        ELSE RandRange(0, stationary_disk_len) :
                /\ k_offset' = draw
                /\ iters_until_rotate' = frequency_rotate
                /\ disk_reads' = <<movable_disk_len - draw>>
                /\ IF Readable(movable_disk', movable_disk_len - draw)
                   THEN /\ encrypted_message' =
                               <<PyAt(movable_disk', movable_disk_len - draw)>>
                        /\ pc' = "loop"
                        /\ UNCHANGED <<exit_status, error_message>>
                   ELSE /\ Raise("IndexError: string index out of range")
                        /\ UNCHANGED encrypted_message
       ELSE /\ pc' = "loop"
            /\ UNCHANGED <<k_offset, iters_until_rotate, disk_reads, encrypted_message,
                           exit_status, error_message>>
    /\ UNCHANGED <<script, argVars, frequency_rotate, method_two, message_index,
                   ciphertext, decrypted_message, loopVars>>

\* one iteration of `for char in secret_message`: the rotation when it is due,
\* the letter (written twice for h, j, k, u, w, y), iters_until_rotate -= 1
AlbertiStep ==
    /\ UNCHANGED notAlberti
    /\ script \in AlbertiEncoders /\ pc = "loop"
    /\ loop_i < Len(secret_message)
    /\ \E draw \in IF iters_until_rotate # 0 THEN {0}
                   ELSE IF method_two THEN {"1", "2", "3", "4"}
                   ELSE RandRange(0, stationary_disk_len) :
           LET rotate == iters_until_rotate = 0
               rot == Rotation(script, draw, stationary_disk, movable_disk,
                               method_two, k_offset)
               offset == IF rotate THEN rot.k_offset ELSE k_offset
               sub == Substitute(secret_message[loop_i + 1])
               got == get_encrypted_letter(sub[1], stationary_disk, movable_disk, offset)
               indicator == IF rotate THEN <<rot.written>> ELSE <<>>
               letters == IF sub[2] = 2 THEN <<got.letter, got.letter>> ELSE <<got.letter>>
           IN  /\ k_offset' = offset
               /\ disk_reads' = disk_reads \o (IF rotate THEN <<rot.index>> ELSE <<>>)
                                           \o (IF got.index >= 0 THEN <<got.index>> ELSE <<>>)
               /\ IF got.raised
                  THEN /\ Raise("ValueError: substring not found")
                       /\ encrypted_message' = encrypted_message \o indicator
                       /\ iters_until_rotate' =
                              IF rotate THEN frequency_rotate ELSE iters_until_rotate
                       /\ UNCHANGED loop_i
                  ELSE /\ encrypted_message' = encrypted_message \o indicator \o letters
                       /\ iters_until_rotate' =
                              (IF rotate THEN frequency_rotate ELSE iters_until_rotate) - 1
                       /\ loop_i' = loop_i + 1
                       /\ UNCHANGED <<pc, exit_status, error_message>>
    /\ UNCHANGED <<script, events, argVars, stationary_disk, movable_disk,
                   frequency_rotate, method_two, message_index, secret_message,
                   ciphertext, decrypted_message, runs>>

\* the prints of lines 95-103
AlbertiPrint ==
    /\ UNCHANGED notAlberti
    /\ script \in AlbertiEncoders /\ pc = "loop"
    /\ loop_i = Len(secret_message)
    /\ events' = Append(events, "output")
    /\ pc' = "done"
    /\ exit_status' = 0
    /\ UNCHANGED <<script, error_message, argVars, albertiVars, textVars, loopVars>>

\* AlbertiDecipher.py is run on the printed message with the two printed disks
\* and the same method
AlbertiRunDecipher ==
    /\ UNCHANGED notAlberti
    /\ script = "Alberti/AlbertiCipher" /\ pc = "done"
    /\ script' = "AlbertiDecipher"
    /\ pc' = "start"
    /\ exit_status' = -1
    /\ events' = <<>>
    /\ args_encrypted' = encrypted_message
    /\ UNCHANGED <<error_message, args_message, albertiVars, textVars, loopVars>>

\* AlbertiDecipher.py lines 29-43: in method two the first character sets k_offset
AlbertiDecipherSetup ==
    /\ UNCHANGED notAlberti
    /\ script = "AlbertiDecipher" /\ pc = "start"
    /\ encrypted_message' = StripSpaces(args_encrypted)
    /\ decrypted_message' = <<>>
    /\ events' = Append(events, "setup")
    /\ IF method_two /\ Len(StripSpaces(args_encrypted)) > 0
       THEN IF Contains(movable_disk, StripSpaces(args_encrypted)[1])
            THEN /\ k_offset' = movable_disk_len
                                    - Index0(movable_disk, StripSpaces(args_encrypted)[1])
                 /\ message_index' = 1
                 /\ pc' = "loop"
                 /\ UNCHANGED <<exit_status, error_message>>
            ELSE /\ Raise("ValueError: substring not found")
                 /\ k_offset' = 0
                 /\ message_index' = 0
       ELSE /\ k_offset' = 0
            /\ message_index' = 0
            /\ pc' = "loop"
            /\ UNCHANGED <<exit_status, error_message>>
    /\ UNCHANGED <<script, argVars, stationary_disk, movable_disk, frequency_rotate,
                   method_two, iters_until_rotate, disk_reads, secret_message,
                   ciphertext, loopVars>>

\* lines 82-95: the plaintext letter of a doubled character, "" when there is none
DoubledLetter(base_char) ==
    IF base_char = "F" THEN "h"
    ELSE IF base_char = "I" THEN "j"
    ELSE IF base_char = "Q" THEN "k"
    ELSE IF base_char = "V" THEN "u"
    ELSE IF base_char = "X" THEN "w"
    ELSE IF base_char = "Z" THEN "y"
    ELSE ""

\* one iteration of the while loop of lines 46-105: [raised, k_offset,
\* message_index, written]
decipher_step(text, index, stationary, movable, two, offset) ==
    LET current_char == text[index + 1]
        failed == [raised |-> TRUE, k_offset |-> offset, message_index |-> index,
                   written |-> <<>>]
        signal == two /\ Contains(movable, ToLower(current_char))
                      /\ IsDigit(stationary[((Index0(movable, ToLower(current_char)) + offset)
                                                 % movable_disk_len) + 1])
    IN  IF two /\ ~ Contains(movable, ToLower(current_char)) THEN failed
        ELSE IF signal
        THEN [raised |-> FALSE,
              k_offset |-> movable_disk_len - Index0(movable, ToLower(current_char)),
              message_index |-> index + 1, written |-> <<>>]
        ELSE IF ~ two /\ IsUpper(current_char)
        THEN IF Contains(stationary, current_char)
             THEN [raised |-> FALSE, k_offset |-> Index0(stationary, current_char),
                   message_index |-> index + 1, written |-> <<>>]
             ELSE failed
        ELSE IF ~ Contains(movable, ToLower(current_char)) THEN failed
        ELSE LET encrypted_char == ToLower(current_char)
                 movable_index == Index0(movable, encrypted_char)
                 stationary_index == (movable_index + offset) % movable_disk_len
                 base_char == stationary[stationary_index + 1]
                 doubled == /\ index + 1 < Len(text)
                            /\ ToLower(text[index + 2]) = encrypted_char
                            /\ DoubledLetter(base_char) # ""
             IN  IF doubled
                 THEN [raised |-> FALSE, k_offset |-> offset,
                       message_index |-> index + 2,
                       written |-> <<DoubledLetter(base_char)>>]
                 ELSE [raised |-> FALSE, k_offset |-> offset,
                       message_index |-> index + 1,
                       written |-> <<ToLower(base_char)>>]

AlbertiDecipherStep ==
    /\ UNCHANGED notAlberti
    /\ script = "AlbertiDecipher" /\ pc = "loop"
    /\ message_index < Len(encrypted_message)
    /\ LET r == decipher_step(encrypted_message, message_index, stationary_disk,
                              movable_disk, method_two, k_offset)
       IN  /\ k_offset' = r.k_offset
           /\ message_index' = r.message_index
           /\ decrypted_message' = decrypted_message \o r.written
           /\ IF r.raised
              THEN Raise("ValueError: substring not found")
              ELSE UNCHANGED <<pc, exit_status, error_message>>
    /\ UNCHANGED <<script, events, argVars, stationary_disk, movable_disk,
                   frequency_rotate, method_two, iters_until_rotate, disk_reads,
                   secret_message, ciphertext, encrypted_message, loopVars>>

\* the prints of lines 107-115
AlbertiDecipherPrint ==
    /\ UNCHANGED notAlberti
    /\ script = "AlbertiDecipher" /\ pc = "loop"
    /\ message_index >= Len(encrypted_message)
    /\ events' = Append(events, "output")
    /\ pc' = "done"
    /\ exit_status' = 0
    /\ UNCHANGED <<script, error_message, argVars, albertiVars, textVars, loopVars>>

NextAlberti == \/ AlbertiSetup
               \/ AlbertiStep
               \/ AlbertiPrint
               \/ AlbertiRunDecipher
               \/ AlbertiDecipherSetup
               \/ AlbertiDecipherStep
               \/ AlbertiDecipherPrint

SpecAlberti == InitAlberti /\ [][NextAlberti]_vars

-----------------------------------------------------------------------------
(* Claims about the Alberti scripts *)

\* C22: for every message of letters a-z, every rotation frequency >= 1, every
\* random arrangement of the two disks and every random rotation offset, in
\* both the default method and method two, AlbertiDecipher given the ciphertext
\* of AlbertiCipher and the printed stationary and movable disks returns the
\* space-stripped lowercase message.
C22_AlbertiRoundTrip ==
    (/\ script = "AlbertiDecipher"
     /\ LowerAZ(secret_message)
     /\ frequency_rotate >= 1) =>
        /\ pc # "raised"
        /\ pc = "done" => decrypted_message = secret_message

\* C30: in both Alberti encoder scripts, for every message, every rotation
\* frequency and every sequence of random rotations in either method, k_offset
\* stays within 0..24 and every index used to read movable_disk or
\* stationary_disk (the initial indicator movable_disk_len - k_offset, each
\* rotation indicator, and each get_encrypted_letter lookup) lies within 0..23.
C30_AlbertiIndicesInRange ==
    script \in AlbertiEncoders =>
        /\ k_offset \in 0..24
        /\ \A n \in 1..Len(disk_reads) : disk_reads[n] \in 0..23

-----------------------------------------------------------------------------
(* BaconCipher.py and BaconDecipher.py *)

\* BACON_24 and BACON_26: the code of each letter A..Z, written as the number
\* its five characters spell with A = 0 and B = 1 ('ABAAA' is 8)
BACON_24 == <<0, 1, 2, 3, 4, 5, 6, 7, 8, 8, 9, 10, 11, 12, 13, 14, 15, 16, 17,
              18, 19, 19, 20, 21, 22, 23>>
BACON_26 == <<0, 1, 2, 3, 4, 5, 6, 7, 8, 9, 10, 11, 12, 13, 14, 15, 16, 17, 18,
              19, 20, 21, 22, 23, 24, 25>>
\* BACON_24_DECODE and BACON_26_DECODE: the letter of each code, by its number
BACON_24_DECODE == <<"A","B","C","D","E","F","G","H","I","K","L","M","N","O","P",
                     "Q","R","S","T","U","W","X","Y","Z">>
BACON_26_DECODE == UpperLetters

\* the five characters of a code
CodeChars(n) == [k \in 1..5 |-> IF (n \div (2 ^ (5 - k))) % 2 = 1 THEN "B" ELSE "A"]
\* the number a chunk spells, -1 when it holds anything but A and B
ChunkNumber(chunk) ==
    IF \E k \in 1..5 : chunk[k] \notin {"A", "B"} THEN -1
    ELSE LET bit(k) == IF chunk[k] = "B" THEN 1 ELSE 0
         IN  16 * bit(1) + 8 * bit(2) + 4 * bit(3) + 2 * bit(4) + bit(5)

LatinLookalikes == <<"a", "e", "o", "p", "c", "x", "y", "i", "s", "j">>
CyrillicLookalikes == <<"cyrillic a", "cyrillic ie", "cyrillic o", "cyrillic er",
                        "cyrillic es", "cyrillic ha", "cyrillic u",
                        "cyrillic byelorussian-ukrainian i", "cyrillic dze",
                        "cyrillic je">>
\* LOOKALIKE_PAIRS[n] as (Latin, Cyrillic)
LOOKALIKE_PAIRS(n) == <<LatinLookalikes[n + 1], CyrillicLookalikes[n + 1]>>

is_cyrillic(char) == Contains(CyrillicLookalikes, char)
is_latin(char) == Contains(AllLower, char) \/ Contains(AllUpper, char)

\* encode_to_bacon: cipher_dict[char] raises KeyError for a letter outside A-Z
BaconKeyError(message) ==
    \E k \in 1..Len(message) :
        IsAlpha(message[k]) /\ ~ Contains(UpperLetters, ToUpper(message[k]))

RECURSIVE encode_to_bacon(_, _)
encode_to_bacon(message, variant) ==
    IF message = <<>> THEN <<>>
    ELSE LET char == ToUpper(Head(message))
             cipher_dict == IF variant = 26 THEN BACON_26 ELSE BACON_24
         IN  (IF char # " " /\ Contains(UpperLetters, char)
              THEN CodeChars(cipher_dict[Index0(UpperLetters, char) + 1])
              ELSE <<>>) \o encode_to_bacon(Tail(message), variant)

\* the letters of a text, and how many letters come before position i
LettersOf(text) == SelectSeq(text, IsAlpha)
LettersBefore(text, i) == Cardinality({ j \in 1..(i - 1) : IsAlpha(text[j]) })
CaseFor(bit, char) == IF bit = "A" THEN ToLower(char) ELSE ToUpper(char)

\* bacon_to_capitalization, filler being the random letters appended when the
\* cover text has fewer letters than the code
bacon_to_capitalization(code, cover_text, filler) ==
    LET cover_letters == LettersOf(cover_text) \o filler
        used == Min(Len(LettersOf(cover_text)), Len(code))
        body == [i \in 1..Len(cover_text) |->
                    IF IsAlpha(cover_text[i]) /\ LettersBefore(cover_text, i) < Len(code)
                    THEN CaseFor(code[LettersBefore(cover_text, i) + 1], cover_text[i])
                    ELSE cover_text[i]]
        rest == [k \in 1..(Len(code) - used) |->
                    CaseFor(code[used + k], cover_letters[used + k])]
    IN  body \o rest

\* bacon_to_binary
bacon_to_binary(code) == [k \in 1..Len(code) |-> IF code[k] = "A" THEN "0" ELSE "1"]

\* bacon_to_unicode, choices[k] being the pair random.choice returns for bit k
bacon_to_unicode(code, choices) ==
    [k \in 1..Len(code) |-> LOOKALIKE_PAIRS(choices[k])[IF code[k] = "A" THEN 1 ELSE 2]]

extract_bacon_from_capitalization(text) ==
    LET letters == LettersOf(text)
    IN  [k \in 1..Len(letters) |-> IF IsLower(letters[k]) THEN "A" ELSE "B"]

extract_bacon_from_binary(text) ==
    LET kept == SelectSeq(text, LAMBDA c : c \notin {" ", "\n", "\r"})
    IN  [k \in 1..Len(kept) |-> IF kept[k] = "0" THEN "A"
                                ELSE IF kept[k] = "1" THEN "B" ELSE kept[k]]

extract_bacon_from_unicode(text) ==
    LET kept == SelectSeq(text, LAMBDA c : is_latin(c) \/ is_cyrillic(c))
    IN  [k \in 1..Len(kept) |-> IF is_latin(kept[k]) THEN "A" ELSE "B"]

\* decode_bacon: whole chunks of five, '?' for a chunk that is not in the table
RECURSIVE decode_bacon(_, _)
decode_bacon(code, variant) ==
    IF Len(code) < 5 THEN <<>>
    ELSE LET decode_dict == IF variant = 26 THEN BACON_26_DECODE ELSE BACON_24_DECODE
             n == ChunkNumber(Slice(code, 0, 5))
         IN  <<IF n >= 0 /\ n < Len(decode_dict) THEN decode_dict[n + 1] ELSE "?">>
                 \o decode_bacon(SliceFrom(code, 5), variant)

(* Inputs of the Bacon runs *)
MaxBaconLen == 2
BaconChars == {"a", "J", "v", " "}
BaconMessages == SeqsUpTo(BaconChars, MaxBaconLen)
                     \cup { <<"H", "e", "y">>, <<"z", "alef">>, <<"a", "1", "!">> }
Modes == {"capitalization", "binary", "unicode"}
Variants == {24, 26}
CoverTexts == { <<>>,
                <<"h", "i">>,
                <<"H", "e", "l", "l", "o">>,
                <<"h", "e", " ", "s", "a", "i", "d", ".">>,
                <<"h", "e", "l", "l", "o", " ", "w", "o", "r", "l", "d">>,
                <<"a", "alef", "c", "d", "e">> }
\* random.choices(string.ascii_lowercase, k = n): the fillers the model draws
FillerLetters == {"q", "x"}
Fillers(n) == { [k \in 1..n |-> c] : c \in FillerLetters }
\* random.choice(LOOKALIKE_PAIRS) for each bit: the sequences the model draws
PairStrides == {0, 1, 3}
PairDraws == (0..9) \X PairStrides
PairAt(draw, k) == (draw[1] + draw[2] * k) % 10

InitBacon ==
    /\ script = "BaconCipher"
    /\ pc = "start"
    /\ NoRun
    /\ args_message \in BaconMessages
    /\ args_encrypted = <<>>
    /\ args_mode \in Modes
    /\ args_variant \in Variants
    /\ args_cover_text \in IF args_mode = "capitalization" THEN CoverTexts ELSE { <<>> }
    /\ bacon_code = <<>> /\ encoded = <<>> /\ decoded_message = <<>>
    /\ secret_message = <<>> /\ ciphertext = <<>>
    /\ encrypted_message = <<>> /\ decrypted_message = <<>>
    /\ ChaoIdle /\ BifidIdle /\ AdfgvxIdle /\ SimpleIdle
    /\ AryaIdle /\ AlbertiIdle

\* main lines 166-170: parser.error without a cover text in capitalization
\* mode, then encode_to_bacon
BaconEncodeToBacon ==
    /\ UNCHANGED notBacon
    /\ script = "BaconCipher" /\ pc = "start"
    /\ IF args_mode = "capitalization" /\ args_cover_text = <<>>
       THEN /\ pc' = "raised"
            /\ exit_status' = 2
            /\ error_message' = "--cover-text is required when using capitalization mode"
            /\ UNCHANGED <<bacon_code, events>>
       ELSE IF BaconKeyError(StripSpaces(args_message))
       THEN /\ Raise("KeyError")
            /\ UNCHANGED <<bacon_code, events>>
       ELSE /\ bacon_code' = encode_to_bacon(args_message, args_variant)
            /\ events' = Append(events, "header")
            /\ pc' = "hide"
            /\ UNCHANGED <<exit_status, error_message>>
    /\ UNCHANGED <<script, argVars, textVars, args_mode, args_cover_text, args_variant,
                   encoded, decoded_message>>

\* main lines 178-192: the output of the chosen mode
BaconHide ==
    /\ UNCHANGED notBacon
    /\ script = "BaconCipher" /\ pc = "hide"
    /\ \/ /\ args_mode = "capitalization"
          /\ \E filler \in Fillers(Max(0, Len(bacon_code)
                                            - Len(LettersOf(args_cover_text)))) :
                 encoded' = bacon_to_capitalization(bacon_code, args_cover_text, filler)
       \/ /\ args_mode = "binary"
          /\ encoded' = bacon_to_binary(bacon_code)
       \/ /\ args_mode = "unicode"
          /\ \E draw \in PairDraws :
                 encoded' = bacon_to_unicode(bacon_code,
                                [k \in 1..Len(bacon_code) |-> PairAt(draw, k)])
    /\ events' = Append(events, "output")
    /\ pc' = "done"
    /\ exit_status' = 0
    /\ UNCHANGED <<script, error_message, argVars, textVars, args_mode, args_cover_text,
                   args_variant, bacon_code, decoded_message>>

\* BaconDecipher.py is run on the printed text with the same mode and variant
BaconRunDecipher ==
    /\ UNCHANGED notBacon
    /\ script = "BaconCipher" /\ pc = "done"
    /\ script' = "BaconDecipher"
    /\ pc' = "start"
    /\ exit_status' = -1
    /\ events' = <<>>
    /\ args_encrypted' = encoded
    /\ bacon_code' = <<>>
    /\ UNCHANGED <<error_message, args_message, textVars, args_mode, args_cover_text,
                   args_variant, encoded, decoded_message>>

\* BaconDecipher.py main lines 137-150
BaconExtract ==
    /\ UNCHANGED notBacon
    /\ script = "BaconDecipher" /\ pc = "start"
    /\ bacon_code' = IF args_mode = "capitalization"
                     THEN extract_bacon_from_capitalization(args_encrypted)
                     ELSE IF args_mode = "binary"
                     THEN extract_bacon_from_binary(args_encrypted)
                     ELSE extract_bacon_from_unicode(args_encrypted)
    /\ events' = Append(events, "header")
    /\ pc' = "decode"
    /\ UNCHANGED <<script, exit_status, error_message, argVars, textVars, args_mode,
                   args_cover_text, args_variant, encoded, decoded_message>>

\* BaconDecipher.py main lines 156-165
BaconDecode ==
    /\ UNCHANGED notBacon
    /\ script = "BaconDecipher" /\ pc = "decode"
    /\ decoded_message' = decode_bacon(bacon_code, args_variant)
    /\ events' = Append(events, "output")
    /\ pc' = "done"
    /\ exit_status' = 0
    /\ UNCHANGED <<script, error_message, argVars, textVars, args_mode, args_cover_text,
                   args_variant, bacon_code, encoded>>

NextBacon == \/ BaconEncodeToBacon
             \/ BaconHide
             \/ BaconRunDecipher
             \/ BaconExtract
             \/ BaconDecode

SpecBacon == InitBacon /\ [][NextBacon]_vars

-----------------------------------------------------------------------------
(* Claims about the Bacon scripts *)

\* the message the decoder should return: uppercased, spaces removed, and in
\* the 24-letter variant J read as I and V read as U
BaconExpected(message, variant) ==
    LET plain == StrUpper(StripSpaces(message))
    IN  [k \in 1..Len(plain) |->
            IF variant = 24 /\ plain[k] = "J" THEN "I"
            ELSE IF variant = 24 /\ plain[k] = "V" THEN "U"
            ELSE plain[k]]

\* a message of the letters A-Z and a-z, spaces allowed
Alphabetic(message) ==
    \A k \in 1..Len(message) :
        message[k] = " " \/ Contains(UpperLetters, ToUpper(message[k]))

\* C23: for every alphabetic message and each mode (binary, unicode
\* lookalikes, capitalization with any cover text), decoding the output of the
\* Bacon encoder with the same variant returns exactly the uppercased,
\* space-stripped message, with J read as I and V read as U in the 24-letter
\* variant.
C23_BaconRoundTrip ==
    (script = "BaconDecipher" /\ pc = "done" /\ Alphabetic(args_message)) =>
        decoded_message = BaconExpected(args_message, args_variant)

====
